---- MODULE Spec2Model ----
(***************************************************************************)
(* ProfileBuilder of ocdsdocumentationsupport/profile_builder.py: the      *)
(* codelist resolver (standard_codelists, codelist_patches,                *)
(* patched_codelists) and the schema resolver (release_schema_patch,       *)
(* patched_release_schema).                                                *)
(*                                                                         *)
(* Texts are sequences of tokens.  A file name is <<"+", "a.csv">>,        *)
(* <<"-", "a.csv">> or <<"a.csv">>, so that name[1:] is Tail(name).  A     *)
(* Python dict is a sequence of <<key, value>> pairs in insertion order.   *)
(* A CSV text is its header and its lines of cells.                        *)
(***************************************************************************)
EXTENDS Integers, Sequences, FiniteSets, TLC

VARIABLES
    pc,           \* position of the caller within the method being run
    _file_cache,  \* ProfileBuilder._file_cache
    standard,     \* the value returned by standard_codelists()
    fetched,      \* what extension.remote() has returned so far, in order
    codelists,    \* the local `codelists` of codelist_patches()
    originals,    \* the local `originals` of codelist_patches()
    names,        \* list(codelists.keys()), which the loop of line 120 runs over
    at,           \* the place of that loop in `names`
    patched,      \* the local `codelists` of patched_codelists()
    log,          \* the records of logger.info, in order
    err,          \* the message of the exception raised, or <<>>
    remote_schemas, \* the release-schema.json of the extensions read so far, as JSON values
    profile_patch,  \* the local `profile_patch` of release_schema_patch()
    patch,          \* the value returned by release_schema_patch()
    schema,         \* the value returned by patched_release_schema()
    codelist_object, \* a Codelist of models.py: its name and its rows
    extension_versions, \* ProfileBuilder.extension_versions, as a list of <<id, version>>
    yielded,         \* what the generator extensions() has yielded so far
    other_file_cache, \* the _file_cache of another ProfileBuilder
    served,          \* the calls made on the two builders and what each returned
    fileobj,         \* the file given to codelists_extract: its name and its CSV text
    messages,        \* what the generator codelists_extract has yielded so far
    cursor           \* the row and the column the loop of codelists_extract is at

vars == <<pc, _file_cache, standard, fetched, codelists, originals, names, at, patched, log,
          err, remote_schemas, profile_patch, patch, schema, codelist_object,
          extension_versions, yielded, other_file_cache, served,
          fileobj, messages, cursor>>

codelist_vars == <<standard, fetched, codelists, originals, names, at, patched, log>>
schema_vars == <<remote_schemas, profile_patch, patch, schema>>
extensions_vars == <<extension_versions, yielded>>
cache_vars == <<other_file_cache, served>>
extract_vars == <<fileobj, messages, cursor>>

-----------------------------------------------------------------------------
(* Bounds *)

\* codelist files fetched from all the extensions during one run
MaxFetch == 3

\* object keys in the release-schema.json files of all the extensions of one run
MaxKeys == 3

-----------------------------------------------------------------------------
(* Python dicts, in insertion order *)

Range(s) == {s[i] : i \in DOMAIN s}

Keys(d) == [i \in DOMAIN d |-> d[i][1]]

Has(d, k) == \E i \in DOMAIN d : d[i][1] = k

Get(d, k) == d[CHOOSE i \in DOMAIN d : d[i][1] = k][2]

\* d[k] = v: an existing key keeps its position, a new key goes last
Put(d, k, v) ==
    IF Has(d, k)
    THEN [i \in DOMAIN d |-> IF d[i][1] = k THEN <<k, v>> ELSE d[i]]
    ELSE Append(d, <<k, v>>)

\* del d[k]
Del(d, k) == SelectSeq(d, LAMBDA p : p[1] # k)

-----------------------------------------------------------------------------
(* The inputs: the extensions, the codelist files and the standard *)

\* extension_versions, in order, with each extension's metadata['name']['en']
Extensions == << [id |-> "e1", name |-> "Extension One"],
                 [id |-> "e2", name |-> "Extension Two"],
                 [id |-> "e3", name |-> "Extension Three"] >>

FullName  == <<"a.csv">>
PlusName  == <<"+", "a.csv">>
MinusName == <<"-", "a.csv">>

\* the names an extension.json may list under "codelists"
CodelistNames == {FullName, PlusName, MinusName}

Header2 == <<"Code", "Title">>
Header3 == <<"Code", "Title", "Deprecated">>

CsvX  == [fieldnames |-> Header2, lines |-> << <<"x", "X">> >>]
CsvY  == [fieldnames |-> Header3, lines |-> << <<"y", "Y", "">> >>]
CsvXY == [fieldnames |-> Header3, lines |-> << <<"x", "X", "">>, <<"y", "Y", "">> >>]
\* the rows that survive are those of CsvY, the text is another
CsvDY == [fieldnames |-> Header3, lines |-> << <<"x", "X", "1.1">>, <<"y", "Y", "">> >>]

\* a text of the standard with a column the texts of the extensions lack
CsvXD ==
    [fieldnames |-> <<"Code", "Title", "Description", "Deprecated">>,
     lines |-> << <<"x", "X", "D", "">>, <<"y", "Y", "D", "">> >>]

\* the texts extension.remote('codelists/' + name) may return
Contents == {CsvX, CsvY, CsvXY, CsvDY}

\* The files of the standard's archive under standard/schema/, as the pairs
\* get_standard_file_contents() stores: the path's components and the text.
\* A directory is an entry whose last component is empty.
ArchiveWith(a) ==
    << << <<"">>, <<>> >>,
       << <<"release-schema.json">>, <<"{", "}">> >>,
       << <<"codelists", "">>, <<>> >> >>
    \o a
    \o << << <<"codelists", "b.csv">>, CsvX >> >>

StandardArchives ==
    { ArchiveWith(<< << <<"codelists", "a.csv">>, CsvXD >> >>),
      ArchiveWith(<< << <<"codelists", "a.csv">>, CsvDY >> >>),
      ArchiveWith(<<>>) }

-----------------------------------------------------------------------------
(* csv.DictReader and _append_extension *)

\* csv.DictReader: one dict per line, the header's names to the line's cells
DictReader(content) ==
    [i \in DOMAIN content.lines |->
        [j \in DOMAIN content.fieldnames |->
            <<content.fieldnames[j], content.lines[i][j]>>]]

\* a faulty variant of line 24: a row is dropped when it has a Deprecated cell at all
HasDeprecatedCell(row) == Has(row, "Deprecated")

\* bool(row.pop('Deprecated', None))
IsDeprecated(row) == Has(row, "Deprecated") /\ Get(row, "Deprecated") # ""

SkipMessage(code, name) ==
    <<"... skipping deprecated code ", code, " in ">> \o name

\* a faulty variant of lines 23-29: a deprecated row is dropped without a log record
RECURSIVE AppendFromSilently(_, _, _, _)
AppendFromSilently(reader, i, name, extension_name) ==
    IF i > Len(reader) THEN [rows |-> <<>>, log |-> <<>>]
    ELSE LET rest == AppendFromSilently(reader, i + 1, name, extension_name)
             row  == reader[i]
         IN  IF IsDeprecated(row)
             THEN rest
             ELSE [rows |-> <<Put(Del(row, "Deprecated"), "Extension", extension_name)>>
                            \o rest.rows,
                   log  |-> rest.log]

\* one pass of the loop body of _append_extension over the rows from i on
RECURSIVE AppendFrom(_, _, _, _)
AppendFrom(reader, i, name, extension_name) ==
    IF i > Len(reader) THEN [rows |-> <<>>, log |-> <<>>]
    ELSE LET rest == AppendFrom(reader, i + 1, name, extension_name)
             row  == reader[i]
         IN  IF IsDeprecated(row)
             THEN [rows |-> rest.rows,
                   log  |-> <<SkipMessage(Get(row, "Code"), name)>> \o rest.log]
             ELSE [rows |-> <<Put(Del(row, "Deprecated"), "Extension", extension_name)>>
                            \o rest.rows,
                   log  |-> rest.log]

\* a faulty variant of line 28: every row is tagged as the standard's
TaggedAsCore(name, content, extension_name) ==
    AppendFrom(DictReader(content), 1, name, "OCDS Core")

\* _append_extension(name, content, extension_name): the rows and what it logs
_append_extension(name, content, extension_name) ==
    AppendFrom(DictReader(content), 1, name, extension_name)

\* [row['Code'] for row in rows]
Codes(rows) == [i \in DOMAIN rows |-> Get(rows[i], "Code")]

-----------------------------------------------------------------------------
(* File names *)

\* name.startswith(('+', '-'))
StartsWithSign(name) == name[1] \in {"+", "-"}

\* name.startswith('+')
StartsWithPlus(name) == name[1] = "+"

-----------------------------------------------------------------------------
(* get_standard_file_contents and standard_codelists *)

\* get_standard_file_contents: the cache after the call, filled from the
\* archive downloaded when it is empty
CacheAfter(cache, archive) == IF cache = <<>> THEN archive ELSE cache

\* os.path.basename(path)
Basename(path) == path[Len(path)]

\* 'codelists' in path.split(os.sep) and name
IsCodelistPath(path) == "codelists" \in Range(path) /\ Basename(path) # ""

\* the loop of standard_codelists over the cache's items from i on
RECURSIVE StandardFrom(_, _, _)
StandardFrom(cache, i, acc) ==
    IF i > Len(cache) THEN acc
    ELSE LET path == cache[i][1]
             name == <<Basename(path)>>
             r    == _append_extension(name, cache[i][2], "OCDS Core")
         IN  IF IsCodelistPath(path)
             THEN StandardFrom(cache, i + 1,
                      [codelists |-> Put(acc.codelists, name, r.rows),
                       log       |-> acc.log \o r.log])
             ELSE StandardFrom(cache, i + 1, acc)

standard_codelists(cache) == StandardFrom(cache, 1, [codelists |-> <<>>, log |-> <<>>])

-----------------------------------------------------------------------------
(* codelist_patches *)

DifferentMessage(name) == <<"codelist ">> \o name \o <<" is different across extensions">>

\* a faulty variant of lines 101-108: the assertion of line 105 is left out
AccumulateUnchecked(cl, orig, name, content, rows) ==
    IF Has(cl, name)
    THEN IF StartsWithSign(name)
         THEN [codelists |-> Put(cl, name, Get(cl, name) \o rows),
               originals |-> orig, err |-> <<>>]
         ELSE [codelists |-> cl, originals |-> orig, err |-> <<>>]
    ELSE [codelists |-> Put(cl, name, rows),
          originals |-> Put(orig, name, content), err |-> <<>>]

\* a faulty variant of lines 101-108: a patch seen again replaces its rows
AccumulateOverwriting(cl, orig, name, content, rows) ==
    IF Has(cl, name) /\ ~StartsWithSign(name)
    THEN [codelists |-> cl, originals |-> orig,
          err |-> IF Get(orig, name) = content THEN <<>> ELSE DifferentMessage(name)]
    ELSE [codelists |-> Put(cl, name, rows),
          originals |-> Put(orig, name, content), err |-> <<>>]

\* a faulty variant of lines 101-108: a full codelist seen again replaces the first
AccumulateKeepingLast(cl, orig, name, content, rows) ==
    IF Has(cl, name) /\ StartsWithSign(name)
    THEN [codelists |-> Put(cl, name, Get(cl, name) \o rows),
          originals |-> orig, err |-> <<>>]
    ELSE [codelists |-> Put(cl, name, rows),
          originals |-> Put(orig, name, content), err |-> <<>>]

\* lines 101-108: what one fetched file does to `codelists` and `originals`
Accumulate(cl, orig, name, content, rows) ==
    IF Has(cl, name)
    THEN IF StartsWithSign(name)
         THEN [codelists |-> Put(cl, name, Get(cl, name) \o rows),
               originals |-> orig, err |-> <<>>]
         ELSE [codelists |-> cl, originals |-> orig,
               err |-> IF Get(orig, name) = content THEN <<>> ELSE DifferentMessage(name)]
    ELSE [codelists |-> Put(cl, name, rows),
          originals |-> Put(orig, name, content), err |-> <<>>]

AddedMessage(code, name) ==
    <<code, " added by ">> \o name \o <<", but not in ">> \o Tail(name)

RemovedMessage(code, name) ==
    <<code, " removed by ">> \o name \o <<", but in ">> \o Tail(name)

HasAddedMessage(name) ==
    Tail(name) \o <<" has the codes added by ">> \o name \o <<", ignoring ">> \o name

HasNoRemovedMessage(name) ==
    Tail(name) \o <<" has no codes removed by ">> \o name \o <<", ignoring ">> \o name

\* a faulty variant of the test of line 129: a removed code is expected in the codelist
FirstBadAsAdded(rows, codes, plus) ==
    LET bad == {i \in DOMAIN rows : Get(rows[i], "Code") \notin Range(codes)}
    IN  IF bad = {} THEN <<>>
        ELSE <<Get(rows[CHOOSE i \in bad : \A j \in bad : i <= j], "Code")>>

\* the first code of the patch's rows that breaks the expectation, or <<>>
FirstBad(rows, codes, plus) ==
    LET bad == {i \in DOMAIN rows :
                   IF plus THEN Get(rows[i], "Code") \notin Range(codes)
                           ELSE Get(rows[i], "Code") \in Range(codes)}
    IN  IF bad = {} THEN <<>>
        ELSE <<Get(rows[CHOOSE i \in bad : \A j \in bad : i <= j], "Code")>>

\* a faulty variant of line 121: only an additive patch is looked at
IsRedundantAddend(cl, name) == StartsWithPlus(name) /\ Has(cl, Tail(name))

\* name.startswith(('+', '-')) and name[1:] in codelists
IsRedundant(cl, name) == StartsWithSign(name) /\ Has(cl, Tail(name))

\* a faulty variant of lines 121-133: a redundant additive patch is dropped unchecked
CollapseOneUnchecked(cl, name) ==
    IF IsRedundant(cl, name)
    THEN LET codes == Codes(Get(cl, Tail(name)))
             bad   == IF StartsWithPlus(name) THEN <<>>
                      ELSE FirstBad(Get(cl, name), codes, FALSE)
         IN  IF bad # <<>>
             THEN [codelists |-> cl, log |-> <<>>, err |-> RemovedMessage(bad[1], name)]
             ELSE [codelists |-> Del(cl, name),
                   log |-> << IF StartsWithPlus(name)
                              THEN HasAddedMessage(name)
                              ELSE HasNoRemovedMessage(name) >>,
                   err |-> <<>>]
    ELSE [codelists |-> cl, log |-> <<>>, err |-> <<>>]

\* lines 121-133: the body of the loop over list(codelists.keys()), for one name
CollapseOne(cl, name) ==
    IF IsRedundant(cl, name)
    THEN LET codes == Codes(Get(cl, Tail(name)))
             bad   == FirstBad(Get(cl, name), codes, StartsWithPlus(name))
         IN  IF bad # <<>>
             THEN [codelists |-> cl, log |-> <<>>,
                   err |-> IF StartsWithPlus(name)
                           THEN AddedMessage(bad[1], name)
                           ELSE RemovedMessage(bad[1], name)]
             ELSE [codelists |-> Del(cl, name),
                   log |-> << IF StartsWithPlus(name)
                              THEN HasAddedMessage(name)
                              ELSE HasNoRemovedMessage(name) >>,
                   err |-> <<>>]
    ELSE [codelists |-> cl, log |-> <<>>, err |-> <<>>]

\* lines 92-108: the loop over the extensions and their files, from the i-th
\* file on; a file is the extension's place, the name and the text
RECURSIVE AccumulateFrom(_, _, _, _)
AccumulateFrom(files, i, cl, orig) ==
    IF i > Len(files) THEN [codelists |-> cl, err |-> <<>>]
    ELSE LET f == files[i]
             r == _append_extension(f.name, f.content, Extensions[f.ext].name)
             a == Accumulate(cl, orig, f.name, f.content, r.rows)
         IN  IF a.err # <<>> THEN [codelists |-> a.codelists, err |-> a.err]
             ELSE AccumulateFrom(files, i + 1, a.codelists, a.originals)

\* lines 120-133: the loop over list(codelists.keys()), from the i-th name on
RECURSIVE CollapseFrom(_, _, _)
CollapseFrom(keys, i, cl) ==
    IF i > Len(keys) THEN [codelists |-> cl, err |-> <<>>]
    ELSE LET c == CollapseOne(cl, keys[i])
         IN  IF c.err # <<>> THEN [codelists |-> c.codelists, err |-> c.err]
             ELSE CollapseFrom(keys, i + 1, c.codelists)

\* codelist_patches(), as a function of the files the extensions give
codelist_patches(files) ==
    LET a == AccumulateFrom(files, 1, <<>>, <<>>)
    IN  IF a.err # <<>> THEN a ELSE CollapseFrom(Keys(a.codelists), 1, a.codelists)

-----------------------------------------------------------------------------
(* process_codelist of apply_extensions *)

\* pluck_fieldnames(fieldnames, basename), for a basename other than documentType.csv
pluck_fieldnames(fieldnames) ==
    SelectSeq(fieldnames, LAMBDA f : f \in {"Code", "Title", "Description", "Extension"})

-----------------------------------------------------------------------------
(* patched_codelists *)

KeyErrorMessage(key) == <<"KeyError: ">> \o key

\* a faulty variant of line 150: a row whose Code is already there is not added
ExtendedWithNewCodes(current, rows) ==
    current \o SelectSeq(rows, LAMBDA row : Get(row, "Code") \notin Range(Codes(current)))

\* line 150: codelists[basename].extend(rows)
Extended(current, rows) == current \o rows

\* a faulty variant of lines 154-155: only the first contributed row removes its code
WithoutFirstCode(current, rows) ==
    IF rows = <<>> THEN current
    ELSE SelectSeq(current, LAMBDA row : Get(row, "Code") # Get(rows[1], "Code"))

\* lines 154-155: the rows whose Code is not among those of `rows`
WithoutCodes(current, rows) ==
    LET removed == Codes(rows)
    IN  SelectSeq(current, LAMBDA row : Get(row, "Code") \notin Range(removed))

\* a faulty variant of line 158: the rows are added to those of the standard
ReplacedByExtending(cl, name, rows) ==
    IF Has(cl, name) THEN Put(cl, name, Get(cl, name) \o rows) ELSE Put(cl, name, rows)

\* a faulty variant of line 158: the codelist becomes the first of the dict
ReplacedInFront(cl, name, rows) == << <<name, rows>> >> \o Del(cl, name)

\* line 158: codelists[name] = rows
Replaced(cl, name, rows) == Put(cl, name, rows)

\* a faulty variant of lines 145-158: a patch of a codelist that is missing
\* starts from an empty codelist
ApplyOneCreating(cl, name, rows) ==
    IF StartsWithSign(name)
    THEN LET basename == Tail(name)
             current  == IF Has(cl, basename) THEN Get(cl, basename) ELSE <<>>
         IN  IF StartsWithPlus(name)
             THEN [codelists |-> Put(cl, basename, Extended(current, rows)), err |-> <<>>]
             ELSE [codelists |-> Put(cl, basename, WithoutCodes(current, rows)), err |-> <<>>]
    ELSE [codelists |-> Replaced(cl, name, rows), err |-> <<>>]

\* lines 145-158: the body of the loop over codelist_patches().items(), for one item
ApplyOne(cl, name, rows) ==
    IF StartsWithSign(name)
    THEN LET basename == Tail(name)
         IN  IF ~Has(cl, basename)
             THEN [codelists |-> cl, err |-> KeyErrorMessage(basename)]
             ELSE IF StartsWithPlus(name)
             THEN [codelists |-> Put(cl, basename, Extended(Get(cl, basename), rows)),
                   err |-> <<>>]
             ELSE [codelists |-> Put(cl, basename, WithoutCodes(Get(cl, basename), rows)),
                   err |-> <<>>]
    ELSE [codelists |-> Replaced(cl, name, rows), err |-> <<>>]

\* lines 144-160: the loop over codelist_patches().items(), from the i-th on
RECURSIVE ApplyFrom(_, _, _)
ApplyFrom(patches, i, cl) ==
    IF i > Len(patches) THEN [codelists |-> cl, err |-> <<>>]
    ELSE LET r == ApplyOne(cl, patches[i][1], patches[i][2])
         IN  IF r.err # <<>> THEN r ELSE ApplyFrom(patches, i + 1, r.codelists)

\* a faulty variant of line 142: the patches are applied to an empty dict
AppliedToNothing(std, patches) == ApplyFrom(patches, 1, <<>>)

\* patched_codelists(): the standard's codelists with the patches applied
Applied(std, patches) == ApplyFrom(patches, 1, std)

-----------------------------------------------------------------------------
(* JSON values and JSON texts *)

JNull == [t |-> "null"]
JNum == [t |-> "num"]
JStr(s) == [t |-> "str", s |-> s]
JObj(o) == [t |-> "obj", o |-> o]

Q == "\""
Sentinel == "REPLACE_WITH_NULL"

\* the tokens that begin with a word character of the regular expression's \b
WordTokens == {"null", "1", "a", "b", "x", Sentinel}

RECURSIVE Dumps(_), DumpItems(_, _)
\* json.dumps(value), with its default separators ', ' and ': '
Dumps(v) ==
    CASE v.t = "null" -> <<"null">>
      [] v.t = "num"  -> <<"1">>
      [] v.t = "str"  -> <<Q>> \o v.s \o <<Q>>
      [] v.t = "obj"  -> <<"{">> \o DumpItems(v.o, 1) \o <<"}">>

DumpItems(items, i) ==
    IF i > Len(items) THEN <<>>
    ELSE (IF i > 1 THEN <<",", " ">> ELSE <<>>)
         \o <<Q>> \o items[i][1] \o <<Q, ":", " ">> \o Dumps(items[i][2])
         \o DumpItems(items, i + 1)

\* the position of the first token from i on that is not whitespace
RECURSIVE SkipSpaces(_, _)
SkipSpaces(text, i) ==
    IF i <= Len(text) /\ text[i] = " " THEN SkipSpaces(text, i + 1) ELSE i

ParseFail == [ok |-> FALSE, v |-> JNull, i |-> 0]

\* the position of the quote that closes the string opened before i, or 0
RECURSIVE ClosingQuote(_, _)
ClosingQuote(text, i) ==
    IF i > Len(text) THEN 0
    ELSE IF text[i] = Q THEN i ELSE ClosingQuote(text, i + 1)

\* a string literal at i
ParseString(text, i) ==
    IF i > Len(text) \/ text[i] # Q THEN ParseFail
    ELSE LET j == ClosingQuote(text, i + 1)
         IN  IF j = 0 THEN ParseFail
             ELSE [ok |-> TRUE, v |-> JStr(SubSeq(text, i + 1, j - 1)), i |-> j + 1]

RECURSIVE ParseValue(_, _), ParseMembers(_, _, _)
\* a JSON value at i, after whitespace
ParseValue(text, i0) ==
    LET i == SkipSpaces(text, i0)
    IN  IF i > Len(text) THEN ParseFail
        ELSE CASE text[i] = "null" -> [ok |-> TRUE, v |-> JNull, i |-> i + 1]
               [] text[i] = "1"    -> [ok |-> TRUE, v |-> JNum, i |-> i + 1]
               [] text[i] = Q      -> ParseString(text, i)
               [] text[i] = "{"    ->
                    LET j == SkipSpaces(text, i + 1)
                    IN  IF j <= Len(text) /\ text[j] = "}"
                        THEN [ok |-> TRUE, v |-> JObj(<<>>), i |-> j + 1]
                        ELSE ParseMembers(text, j, <<>>)
               [] OTHER -> ParseFail

\* the members of an object from i on: "key": value, then ',' or '}'.
\* object_pairs_hook=OrderedDict: a repeated key keeps its place and takes the last value
ParseMembers(text, i, acc) ==
    LET k == ParseString(text, i)
        c == SkipSpaces(text, k.i)
    IN  IF ~k.ok \/ c > Len(text) \/ text[c] # ":" THEN ParseFail
        ELSE LET val == ParseValue(text, c + 1)
                 e   == SkipSpaces(text, val.i)
                 o   == Put(acc, k.v.s, val.v)
             IN  IF ~val.ok \/ e > Len(text) THEN ParseFail
                 ELSE IF text[e] = "}" THEN [ok |-> TRUE, v |-> JObj(o), i |-> e + 1]
                 ELSE IF text[e] = "," THEN ParseMembers(text, SkipSpaces(text, e + 1), o)
                 ELSE ParseFail

\* _json_loads(data): the value, or ok = FALSE where json.loads raises
_json_loads(text) ==
    LET r == ParseValue(text, 1)
    IN  IF r.ok /\ SkipSpaces(text, r.i) > Len(text) THEN r ELSE ParseFail

\* whether :\s*null\b matches at i
NullMatchesAt(text, i) ==
    /\ text[i] = ":"
    /\ LET j == SkipSpaces(text, i + 1)
       IN  /\ j <= Len(text)
           /\ text[j] = "null"
           /\ (j = Len(text) \/ text[j + 1] \notin WordTokens)

\* re.sub(r':\s*null\b', ': "REPLACE_WITH_NULL"', text), from i on
RECURSIVE SubNulls(_, _)
SubNulls(text, i) ==
    IF i > Len(text) THEN <<>>
    ELSE IF NullMatchesAt(text, i)
         THEN <<":", " ", Q, Sentinel, Q>> \o SubNulls(text, SkipSpaces(text, i + 1) + 1)
         ELSE <<text[i]>> \o SubNulls(text, i + 1)

\* text.replace('"REPLACE_WITH_NULL"', 'null'), from i on
RECURSIVE ReplaceSentinel(_, _)
ReplaceSentinel(text, i) ==
    IF i > Len(text) THEN <<>>
    ELSE IF i + 2 <= Len(text) /\ text[i] = Q /\ text[i + 1] = Sentinel /\ text[i + 2] = Q
         THEN <<"null">> \o ReplaceSentinel(text, i + 3)
         ELSE <<text[i]>> \o ReplaceSentinel(text, i + 1)

-----------------------------------------------------------------------------
(* json_merge_patch.merge *)

RECURSIVE merge_obj(_, _), MergeItems(_, _, _)
\* merge_obj(result, obj): a patch that is no object is the result; an object is
\* merged key by key into the result, or into {} when the result is no object
merge_obj(result, obj) ==
    IF obj.t # "obj" THEN obj
    ELSE MergeItems(IF result.t = "obj" THEN result.o ELSE <<>>, obj.o, 1)

\* the loop over obj.items() from i on
MergeItems(result, items, i) ==
    IF i > Len(items) THEN JObj(result)
    ELSE LET key   == items[i][1]
             value == items[i][2]
         IN  IF value.t = "obj"
             THEN LET target == IF Has(result, key) THEN Get(result, key) ELSE JNull
                  IN  MergeItems(Put(result, key, merge_obj(target, value)), items, i + 1)
             ELSE IF value.t = "null"
             THEN MergeItems(Del(result, key), items, i + 1)
             ELSE MergeItems(Put(result, key, value), items, i + 1)

\* json_merge_patch.merge(target, patch)
merge(target, p) == merge_obj(target, p)

\* apply_extensions: json_merge_patch.merge(schema, response.json()) for each
\* extension in turn, from the i-th on
RECURSIVE MergedOneByOne(_, _, _)
MergedOneByOne(target, patches, i) ==
    IF i > Len(patches) THEN target
    ELSE MergedOneByOne(merge(target, patches[i]), patches, i + 1)

-----------------------------------------------------------------------------
(* The inputs of the schema resolver *)

KeyA == <<"a">>
KeyB == <<"b">>
JsonKeys == {KeyA, KeyB}

\* the scalar values of the extensions' patches: null, a number, a string, the
\* sentinel's text as a string and inside a longer string, and a string that
\* holds a colon followed by the word null
Leaves == { JNull, JNum, JStr(<<"x">>), JStr(<<Sentinel>>), JStr(<<"x", Sentinel>>),
            JStr(<<"x", ":", " ", "null">>) }

\* the objects over the keys a and b with values in vals
ObjectsOver(vals) ==
    {<<>>}
    \cup { << <<k, v>> >> : k \in JsonKeys, v \in vals }
    \cup { << <<KeyA, v>>, <<KeyB, w>> >> : v \in vals, w \in vals }

RECURSIVE KeyCount(_), KeyCountItems(_, _)
\* the number of object keys in a value
KeyCount(v) == IF v.t = "obj" THEN KeyCountItems(v.o, 1) ELSE 0

KeyCountItems(items, i) ==
    IF i > Len(items) THEN 0
    ELSE 1 + KeyCount(items[i][2]) + KeyCountItems(items, i + 1)

\* the release-schema.json an extension may have: an object of objects and scalars
AllPatches ==
    { JObj(o) : o \in ObjectsOver(Leaves \cup { JObj(n) : n \in ObjectsOver(Leaves) }) }

\* those of exactly n keys, for each n up to MaxKeys
PatchesOfSize == [n \in 0 .. MaxKeys |-> { p \in AllPatches : KeyCount(p) = n }]

\* the release-schema.json an extension may have when `used` keys have been read
ExtensionPatches(used) == UNION { PatchesOfSize[n] : n \in 0 .. (MaxKeys - used) }

\* the release-schema.json of the standard
BaseSchemas ==
    { JObj(<< <<KeyA, JNum>>, <<KeyB, JStr(<<"x">>)>> >>),
      JObj(<< <<KeyA, JObj(<< <<KeyA, JNum>>, <<KeyB, JNum>> >>)>> >>) }

SchemaArchive(base) ==
    << << <<"">>, <<>> >>,
       << <<"release-schema.json">>, Dumps(base) >> >>

-----------------------------------------------------------------------------
(* release_schema_patch and patched_release_schema *)

\* a faulty variant of line 72: the nulls are left as they are
WithoutSentinels(text) == text

\* line 72: the text of an extension's release-schema.json with its nulls replaced
WithSentinels(text) == SubNulls(text, 1)

\* a faulty variant of line 73: the extension's patch replaces what was accumulated
MergedByReplacing(result, loaded) == loaded

\* line 73: json_merge_patch.merge(profile_patch, loaded), whose result is dropped:
\* profile_patch is what merge_obj has changed in place
MergedInPlace(result, loaded) ==
    IF loaded.t = "obj" THEN merge_obj(result, loaded) ELSE result

\* line 75: _json_loads(json.dumps(profile_patch).replace('"REPLACE_WITH_NULL"', 'null'))
release_schema_patch(accumulated) ==
    _json_loads(ReplaceSentinel(Dumps(accumulated), 1))

\* a faulty variant of line 82: the schema is updated with the patch's items,
\* as dict.update does
PatchedByUpdate(data, consolidated) ==
    LET base == _json_loads(data)
        RECURSIVE UpdateItems(_, _, _)
        UpdateItems(result, items, i) ==
            IF i > Len(items) THEN JObj(result)
            ELSE UpdateItems(Put(result, items[i][1], items[i][2]), items, i + 1)
    IN  IF base.ok /\ base.v.t = "obj" /\ consolidated.t = "obj"
        THEN [ok |-> TRUE, v |-> UpdateItems(base.v.o, consolidated.o, 1)]
        ELSE [ok |-> FALSE, v |-> JNull]

\* line 82: json_merge_patch.merge(_json_loads(data), self.release_schema_patch())
patched_release_schema(data, consolidated) ==
    LET base == _json_loads(data)
    IN  IF base.ok THEN [ok |-> TRUE, v |-> merge(base.v, consolidated)]
        ELSE [ok |-> FALSE, v |-> JNull]

JSONDecodeError == <<"JSONDecodeError">>

-----------------------------------------------------------------------------
(* extensions() and the extension registry *)

ExtensionIds == {"e1", "e2", "e3"}
ExtensionVersions == {"master", "v1"}

\* the rows of the registry's extension_versions.csv
Registry ==
    << [id |-> "e1", version |-> "master", date |-> ""],
       [id |-> "e1", version |-> "v1", date |-> "2018-02-01"],
       [id |-> "e2", version |-> "master", date |-> ""],
       [id |-> "e3", version |-> "v1", date |-> "2018-02-01"] >>

\* the dicts of identifiers and versions a ProfileBuilder may be given, in
\* insertion order: no identifier twice
Mappings ==
    { m \in UNION { [1 .. n -> ExtensionIds \X ExtensionVersions] : n \in 0 .. 3 } :
        \A i \in DOMAIN m, j \in DOMAIN m : i # j => m[i][1] # m[j][1] }

DoesNotExist == <<"DoesNotExist">>

\* ExtensionRegistry.get(id=identifier, version=version): the first row that
\* matches, or nothing
registry_get(identifier, version) ==
    SelectSeq(Registry, LAMBDA row : row.id = identifier /\ row.version = version)

\* a faulty variant of line 62: the version is not asked for
ResolvedById(item) == SelectSeq(Registry, LAMBDA row : row.id = item[1])

\* line 62: self.registry.get(id=identifier, version=version)
Resolved(item) == registry_get(item[1], item[2])

-----------------------------------------------------------------------------
(* codelists_extract, the Babel extractor of codelist files *)

\* data lines in a file given to codelists_extract
MaxLines == 2

\* str.strip(), on a text whose whitespace is the token " "
RECURSIVE LStrip(_), RStrip(_)
LStrip(text) == IF text # <<>> /\ Head(text) = " " THEN LStrip(Tail(text)) ELSE text

RStrip(text) ==
    IF text # <<>> /\ text[Len(text)] = " " THEN RStrip(SubSeq(text, 1, Len(text) - 1))
    ELSE text

Strip(text) == LStrip(RStrip(text))

\* no file has been given
NoFile == [name |-> <<>>, fieldnames |-> <<>>, lines |-> <<>>]

\* the cells of a file: empty, whitespace, a word, a word within whitespace
Cells == { <<>>, <<" ">>, <<"foo">>, <<" ", "bar", " ">> }

\* the headers of a file
Fieldnames ==
    { << <<"Code">>, <<"Title">>, <<"Description">> >>,
      << <<"Extension">>, <<"Category">>, <<" ", "Title", " ">> >> }

\* the data lines of a file: a first cell and two cells of any kind
Lines == { << <<"x">>, c, d >> : c \in Cells, d \in Cells }

\* the files Babel hands to the extractor
Files ==
    { [name |-> n, fieldnames |-> h, lines |-> l] :
        n \in { <<"codelists", "test.csv">>, <<"codelists", "currency.csv">> },
        h \in Fieldnames,
        l \in UNION { [1 .. k -> Lines] : k \in 0 .. MaxLines } }

\* ('Title', 'Description', 'Extension')
TranslatableHeaders == { <<"Title">>, <<"Description">>, <<"Extension">> }

\* line 24: yield 0, '', header.strip(), ''
HeaderMessage(header) == [lineno |-> 0, message |-> Strip(header), comments |-> <<>>]

\* lines 29-30: what the cell of a row under a key yields, if anything
CellMessages(row_number, key, value) ==
    IF key \in TranslatableHeaders /\ value # <<>>
    THEN << [lineno |-> row_number, message |-> Strip(value), comments |-> <<key>>] >>
    ELSE <<>>

-----------------------------------------------------------------------------
(* models.py: Codelist and CodelistCode *)

\* rows a Codelist may hold in the model
MaxRows == 3

\* no Codelist has been constructed
NoCodelist == [name |-> <<>>, rows |-> <<>>]

\* Codelist(name)
Codelist(name) == [name |-> name, rows |-> <<>>]

\* CodelistCode(data, extension_name)
CodelistCode(data, extension_name) == [data |-> data, extension_name |-> extension_name]

\* Codelist.extend(rows, extension_name)
extend(self, rows, extension_name) ==
    [self EXCEPT !.rows = self.rows \o [i \in DOMAIN rows |-> CodelistCode(rows[i], extension_name)]]

\* Codelist.add_extension_column(field_name)
add_extension_column(self, field_name) ==
    [self EXCEPT !.rows = [i \in DOMAIN self.rows |->
        [self.rows[i] EXCEPT !.data = Put(self.rows[i].data, field_name,
                                          self.rows[i].extension_name)]]]

\* a faulty variant of line 40: a row is kept when its Deprecated cell is the empty string
KeepEmptyDeprecated(self) ==
    [self EXCEPT !.rows =
        LET kept == SelectSeq(self.rows,
                              LAMBDA row : Has(row.data, "Deprecated")
                                           /\ Get(row.data, "Deprecated") = "")
        IN  [i \in DOMAIN kept |-> [kept[i] EXCEPT !.data = Del(kept[i].data, "Deprecated")]]]

\* Codelist.remove_deprecated_codes(): row.pop('Deprecated', None) on every
\* row, the rows for which it gave nothing or the empty string kept
remove_deprecated_codes(self) ==
    [self EXCEPT !.rows =
        LET kept == SelectSeq(self.rows, LAMBDA row : ~IsDeprecated(row.data))
        IN  [i \in DOMAIN kept |-> [kept[i] EXCEPT !.data = Del(kept[i].data, "Deprecated")]]]

\* the names a Codelist is constructed with: those of the files, and names
\* with a second sign
ModelNames == CodelistNames \cup { <<"+", "+", "a.csv">>, <<"-", "+", "a.csv">> }

\* Codelist.patch: self.name.startswith(('+', '-'))
Codelist_patch(self) == self.name # <<>> /\ self.name[1] \in {"+", "-"}

\* Codelist.addend: self.name.startswith('+')
Codelist_addend(self) == self.name # <<>> /\ self.name[1] = "+"

\* Codelist.subtrahend: self.name.startswith('-')
Codelist_subtrahend(self) == self.name # <<>> /\ self.name[1] = "-"

\* a faulty variant of lines 64-67: every sign is taken off the name
BasenameWithoutSigns(self) == SelectSeq(self.name, LAMBDA c : c \notin {"+", "-"})

\* Codelist.basename: self.name[1:] if self.patch, else self.name
Codelist_basename(self) == IF Codelist_patch(self) THEN Tail(self.name) ELSE self.name

-----------------------------------------------------------------------------
(* The calls, step by step: patched_codelists() and patched_release_schema() *)

Init ==
    /\ pc = "start"
    /\ _file_cache = <<>>
    /\ standard = <<>>
    /\ fetched = <<>>
    /\ codelists = <<>>
    /\ originals = <<>>
    /\ names = <<>>
    /\ at = 0
    /\ patched = <<>>
    /\ log = <<>>
    /\ err = <<>>
    /\ remote_schemas = <<>>
    /\ profile_patch = JObj(<<>>)
    /\ patch = JNull
    /\ schema = JNull
    /\ codelist_object = NoCodelist
    /\ extension_versions = <<>>
    /\ yielded = <<>>
    /\ other_file_cache = <<>>
    /\ served = <<>>
    /\ fileobj = NoFile
    /\ messages = <<>>
    /\ cursor = <<0, 0>>

\* line 142: standard_codelists(), which fills the cache from the archive
StandardCodelists ==
    /\ pc = "start"
    /\ \E archive \in StandardArchives :
          LET cache == CacheAfter(_file_cache, archive)
              r     == standard_codelists(cache)
          IN  /\ _file_cache' = cache
              /\ standard' = r.codelists
              /\ log' = log \o r.log
    /\ pc' = "collect"
    /\ UNCHANGED <<fetched, codelists, originals, names, at, patched, err>>
    /\ UNCHANGED schema_vars
    /\ UNCHANGED codelist_object
    /\ UNCHANGED extensions_vars
    /\ UNCHANGED cache_vars
    /\ UNCHANGED extract_vars

\* the extension the loop of line 92 is at: that of the last file fetched
CurrentExtension == IF fetched = <<>> THEN 1 ELSE fetched[Len(fetched)].ext

\* lines 95-108: one file of the current or of a later extension
Fetch ==
    /\ pc = "collect"
    /\ Len(fetched) < MaxFetch
    /\ \E e \in CurrentExtension .. Len(Extensions), name \in CodelistNames,
          content \in Contents :
          /\ \A i \in DOMAIN fetched : ~(fetched[i].ext = e /\ fetched[i].name = name)
          /\ LET r == _append_extension(name, content, Extensions[e].name)
                 a == Accumulate(codelists, originals, name, content, r.rows)
             IN  /\ fetched' = Append(fetched, [ext |-> e, name |-> name, content |-> content])
                 /\ log' = log \o r.log
                 /\ codelists' = a.codelists
                 /\ originals' = a.originals
                 /\ err' = a.err
                 /\ pc' = IF a.err = <<>> THEN "collect" ELSE "error"
    /\ UNCHANGED <<_file_cache, standard, names, at, patched>>
    /\ UNCHANGED schema_vars
    /\ UNCHANGED codelist_object
    /\ UNCHANGED extensions_vars
    /\ UNCHANGED cache_vars
    /\ UNCHANGED extract_vars

\* line 120: the extensions are exhausted; the loop over list(codelists.keys()) begins
EndOfExtensions ==
    /\ pc = "collect"
    /\ names' = Keys(codelists)
    /\ at' = 1
    /\ pc' = "collapse"
    /\ UNCHANGED <<_file_cache, standard, fetched, codelists, originals, patched, log, err>>
    /\ UNCHANGED schema_vars
    /\ UNCHANGED codelist_object
    /\ UNCHANGED extensions_vars
    /\ UNCHANGED cache_vars
    /\ UNCHANGED extract_vars

\* lines 121-133: the loop looks at the next name
Collapse ==
    /\ pc = "collapse"
    /\ at <= Len(names)
    /\ LET c == CollapseOne(codelists, names[at])
       IN  /\ codelists' = c.codelists
           /\ log' = log \o c.log
           /\ err' = c.err
           /\ pc' = IF c.err = <<>> THEN "collapse" ELSE "error"
    /\ at' = at + 1
    /\ UNCHANGED <<_file_cache, standard, fetched, originals, names, patched>>
    /\ UNCHANGED schema_vars
    /\ UNCHANGED codelist_object
    /\ UNCHANGED extensions_vars
    /\ UNCHANGED cache_vars
    /\ UNCHANGED extract_vars

\* line 135: codelist_patches() returns
ReturnPatches ==
    /\ pc = "collapse"
    /\ at > Len(names)
    /\ pc' = "patches"
    /\ UNCHANGED <<_file_cache, standard, fetched, codelists, originals, names, at, patched,
                   log, err>>
    /\ UNCHANGED schema_vars
    /\ UNCHANGED codelist_object
    /\ UNCHANGED extensions_vars
    /\ UNCHANGED cache_vars
    /\ UNCHANGED extract_vars

\* lines 144-160: apply what codelist_patches() returned to the standard's codelists
Apply ==
    /\ pc = "patches"
    /\ LET a == Applied(standard, codelists)
       IN  /\ patched' = a.codelists
           /\ err' = a.err
           /\ pc' = IF a.err = <<>> THEN "patched" ELSE "error"
    /\ UNCHANGED <<_file_cache, standard, fetched, codelists, originals, names, at, log>>
    /\ UNCHANGED schema_vars
    /\ UNCHANGED codelist_object
    /\ UNCHANGED extensions_vars
    /\ UNCHANGED cache_vars
    /\ UNCHANGED extract_vars

\* line 81: get_standard_file_contents('release-schema.json') downloads the archive
GetStandardFileContents ==
    /\ pc = "start"
    /\ \E base \in BaseSchemas :
          _file_cache' = CacheAfter(_file_cache, SchemaArchive(base))
    /\ pc' = "merging"
    /\ UNCHANGED err
    /\ UNCHANGED codelist_vars
    /\ UNCHANGED schema_vars
    /\ UNCHANGED codelist_object
    /\ UNCHANGED extensions_vars
    /\ UNCHANGED cache_vars
    /\ UNCHANGED extract_vars

\* the object keys of the patches read so far
RECURSIVE KeysRead(_, _)
KeysRead(read, i) ==
    IF i > Len(read) THEN 0 ELSE KeyCount(read[i]) + KeysRead(read, i + 1)

\* lines 71-73: the release-schema.json of the next extension is merged
MergeExtension ==
    /\ pc = "merging"
    /\ Len(remote_schemas) < Len(Extensions)
    /\ \E p \in ExtensionPatches(KeysRead(remote_schemas, 1)) :
          /\ LET loaded == _json_loads(WithSentinels(Dumps(p)))
             IN  /\ remote_schemas' = Append(remote_schemas, p)
                 /\ profile_patch' = IF loaded.ok THEN MergedInPlace(profile_patch, loaded.v)
                                     ELSE profile_patch
                 /\ err' = IF loaded.ok THEN <<>> ELSE JSONDecodeError
                 /\ pc' = IF loaded.ok THEN "merging" ELSE "error"
    /\ UNCHANGED <<_file_cache, patch, schema>>
    /\ UNCHANGED codelist_vars
    /\ UNCHANGED codelist_object
    /\ UNCHANGED extensions_vars
    /\ UNCHANGED cache_vars
    /\ UNCHANGED extract_vars

\* line 75: release_schema_patch() returns
ReturnPatch ==
    /\ pc = "merging"
    /\ Len(remote_schemas) = Len(Extensions)
    /\ LET r == release_schema_patch(profile_patch)
       IN  /\ patch' = r.v
           /\ err' = IF r.ok THEN <<>> ELSE JSONDecodeError
           /\ pc' = IF r.ok THEN "patch" ELSE "error"
    /\ UNCHANGED <<_file_cache, remote_schemas, profile_patch, schema>>
    /\ UNCHANGED codelist_vars
    /\ UNCHANGED codelist_object
    /\ UNCHANGED extensions_vars
    /\ UNCHANGED cache_vars
    /\ UNCHANGED extract_vars

\* line 82: the standard's schema is merged with the consolidated patch
PatchedReleaseSchema ==
    /\ pc = "patch"
    /\ LET r == patched_release_schema(Get(_file_cache, <<"release-schema.json">>), patch)
       IN  /\ schema' = r.v
           /\ err' = IF r.ok THEN <<>> ELSE JSONDecodeError
           /\ pc' = IF r.ok THEN "schema" ELSE "error"
    /\ UNCHANGED <<_file_cache, remote_schemas, profile_patch, patch>>
    /\ UNCHANGED codelist_vars
    /\ UNCHANGED codelist_object
    /\ UNCHANGED extensions_vars
    /\ UNCHANGED cache_vars
    /\ UNCHANGED extract_vars

\* one call of patched_codelists()
CodelistNext ==
    \/ StandardCodelists
    \/ Fetch
    \/ EndOfExtensions
    \/ Collapse
    \/ ReturnPatches
    \/ Apply

CodelistSpec == Init /\ [][CodelistNext]_vars

\* one call of patched_release_schema()
SchemaNext ==
    \/ GetStandardFileContents
    \/ MergeExtension
    \/ ReturnPatch
    \/ PatchedReleaseSchema

SchemaSpec == Init /\ [][SchemaNext]_vars

\* models.py line 5: Codelist(name)
CodelistInit ==
    /\ codelist_object = NoCodelist
    /\ \E name \in ModelNames : codelist_object' = Codelist(name)
    /\ UNCHANGED <<pc, _file_cache, err>>
    /\ UNCHANGED codelist_vars
    /\ UNCHANGED schema_vars
    /\ UNCHANGED extensions_vars
    /\ UNCHANGED cache_vars
    /\ UNCHANGED extract_vars

\* models.py line 22: extend(rows, extension_name) with the rows of a file
Extend ==
    /\ codelist_object # NoCodelist
    /\ \E content \in Contents, e \in DOMAIN Extensions :
          /\ Len(codelist_object.rows) + Len(content.lines) <= MaxRows
          /\ codelist_object' = extend(codelist_object, DictReader(content), Extensions[e].name)
    /\ UNCHANGED <<pc, _file_cache, err>>
    /\ UNCHANGED codelist_vars
    /\ UNCHANGED schema_vars
    /\ UNCHANGED extensions_vars
    /\ UNCHANGED cache_vars
    /\ UNCHANGED extract_vars

\* models.py line 29: add_extension_column(field_name)
AddExtensionColumn ==
    /\ codelist_object # NoCodelist
    /\ codelist_object' = add_extension_column(codelist_object, "Extension")
    /\ UNCHANGED <<pc, _file_cache, err>>
    /\ UNCHANGED codelist_vars
    /\ UNCHANGED schema_vars
    /\ UNCHANGED extensions_vars
    /\ UNCHANGED cache_vars
    /\ UNCHANGED extract_vars

\* models.py line 36: remove_deprecated_codes()
RemoveDeprecatedCodes ==
    /\ codelist_object # NoCodelist
    /\ codelist_object' = remove_deprecated_codes(codelist_object)
    /\ UNCHANGED <<pc, _file_cache, err>>
    /\ UNCHANGED codelist_vars
    /\ UNCHANGED schema_vars
    /\ UNCHANGED extensions_vars
    /\ UNCHANGED cache_vars
    /\ UNCHANGED extract_vars

\* the calls on one Codelist
ModelsNext ==
    \/ CodelistInit
    \/ Extend
    \/ AddExtensionColumn
    \/ RemoveDeprecatedCodes

ModelsSpec == Init /\ [][ModelsNext]_vars

\* lines 47-48: ProfileBuilder(standard_version, extension_versions)
Construct ==
    /\ pc = "start"
    /\ \E m \in Mappings : extension_versions' = m
    /\ pc' = "extensions"
    /\ UNCHANGED <<_file_cache, err, codelist_object, yielded>>
    /\ UNCHANGED codelist_vars
    /\ UNCHANGED schema_vars
    /\ UNCHANGED cache_vars
    /\ UNCHANGED extract_vars

\* lines 61-62: the generator is asked for its next value and has one to resolve
NextExtension ==
    /\ pc = "extensions"
    /\ Len(yielded) < Len(extension_versions)
    /\ LET found == Resolved(extension_versions[Len(yielded) + 1])
       IN  IF found = <<>>
           THEN /\ err' = DoesNotExist
                /\ pc' = "error"
                /\ UNCHANGED yielded
           ELSE /\ yielded' = Append(yielded, found[1])
                /\ UNCHANGED <<pc, err>>
    /\ UNCHANGED <<_file_cache, codelist_object, extension_versions>>
    /\ UNCHANGED codelist_vars
    /\ UNCHANGED schema_vars
    /\ UNCHANGED cache_vars
    /\ UNCHANGED extract_vars

\* line 61: the loop over extension_versions.items() ends
StopIteration ==
    /\ pc = "extensions"
    /\ Len(yielded) = Len(extension_versions)
    /\ pc' = "exhausted"
    /\ UNCHANGED <<_file_cache, err, codelist_object>>
    /\ UNCHANGED codelist_vars
    /\ UNCHANGED schema_vars
    /\ UNCHANGED extensions_vars
    /\ UNCHANGED cache_vars
    /\ UNCHANGED extract_vars

\* one list(builder.extensions())
ExtensionsNext ==
    \/ Construct
    \/ NextExtension
    \/ StopIteration

ExtensionsSpec == Init /\ [][ExtensionsNext]_vars

-----------------------------------------------------------------------------
(* Two ProfileBuilders without extensions and the calls made on them *)

MaxCalls == 3

Builders == {1, 2}

HTTPError == <<"HTTPError">>

ReleaseSchemaPath == <<"release-schema.json">>

\* the basenames get_standard_file_contents() is asked for
Basenames == {ReleaseSchemaPath, <<"codelists", "b.csv">>}

\* what lines 187-194 store from the archive that is downloaded: the files
\* whose name holds standard/schema/, which an archive may not have
CacheArchives ==
    { ArchiveWith(<<>>),
      SchemaArchive(JObj(<< <<KeyA, JNum>> >>)),
      <<>> }

\* lines 185-186: the response of requests.get(url), which raise_for_status() accepts or not
Responses ==
    { [ok |-> TRUE, files |-> a] : a \in CacheArchives }
    \cup { [ok |-> FALSE, files |-> <<>>] }

\* get_standard_file_contents(basename) on a builder whose _file_cache is
\* `cache`, when requests.get() would answer `response`
get_standard_file_contents(cache, response, basename) ==
    IF cache = <<>> /\ ~response.ok
    THEN [cache |-> cache, downloaded |-> FALSE, files |-> <<>>,
          ok |-> FALSE, v |-> HTTPError]
    ELSE LET filled == CacheAfter(cache, response.files)
         IN  [cache |-> filled,
              downloaded |-> (cache = <<>>),
              files |-> IF cache = <<>> THEN response.files ELSE <<>>,
              ok |-> Has(filled, basename),
              v |-> IF Has(filled, basename) THEN Get(filled, basename)
                    ELSE KeyErrorMessage(basename)]

\* what a call returns or raises on a builder without extensions, with the
\* cache it leaves and the messages it logs
Answer(call, basename, cache, response) ==
    LET r == get_standard_file_contents(cache, response, basename)
        quiet == [cache |-> r.cache, downloaded |-> r.downloaded, files |-> r.files,
                  ok |-> r.ok, v |-> r.v, log |-> <<>>]
    IN  IF call = "get_standard_file_contents" \/ ~r.ok THEN quiet
        ELSE IF call = "patched_release_schema"
        THEN LET p == patched_release_schema(r.v, release_schema_patch(JObj(<<>>)).v)
             IN  [quiet EXCEPT !.ok = p.ok, !.v = IF p.ok THEN p.v ELSE JSONDecodeError]
        ELSE LET s == standard_codelists(r.cache)
             IN  IF call = "standard_codelists"
                 THEN [quiet EXCEPT !.v = s.codelists, !.log = s.log]
                 ELSE [quiet EXCEPT !.v = Applied(s.codelists, <<>>).codelists, !.log = s.log]

CacheOf(b) == IF b = 1 THEN _file_cache ELSE other_file_cache

\* what one call on builder b changes, from its entry to its return or its
\* exception: the builder's cache, the log and the record of the call
Serve(b, call, basename) ==
    \E response \in Responses :
        \E a \in {Answer(call, basename, CacheOf(b), response)} :
            /\ _file_cache' = IF b = 1 THEN a.cache ELSE _file_cache
            /\ other_file_cache' = IF b = 2 THEN a.cache ELSE other_file_cache
            /\ log' = log \o a.log
            /\ served' = Append(served,
                  [builder |-> b, call |-> call, basename |-> basename,
                   downloaded |-> a.downloaded, files |-> a.files,
                   ok |-> a.ok, v |-> a.v])

\* lines 178-196
CallGetStandardFileContents ==
    /\ pc = "start"
    /\ Len(served) < MaxCalls
    /\ \E b \in Builders, basename \in Basenames : Serve(b, "get_standard_file_contents", basename)
    /\ UNCHANGED <<pc, err, codelist_object>>
    /\ UNCHANGED <<standard, fetched, codelists, originals, names, at, patched>>
    /\ UNCHANGED schema_vars
    /\ UNCHANGED extensions_vars
    /\ UNCHANGED extract_vars

\* lines 162-176
CallStandardCodelists ==
    /\ pc = "start"
    /\ Len(served) < MaxCalls
    /\ \E b \in Builders : Serve(b, "standard_codelists", ReleaseSchemaPath)
    /\ UNCHANGED <<pc, err, codelist_object>>
    /\ UNCHANGED <<standard, fetched, codelists, originals, names, at, patched>>
    /\ UNCHANGED schema_vars
    /\ UNCHANGED extensions_vars
    /\ UNCHANGED extract_vars

\* lines 137-160, when the builder has no extensions
CallPatchedCodelists ==
    /\ pc = "start"
    /\ Len(served) < MaxCalls
    /\ \E b \in Builders : Serve(b, "patched_codelists", ReleaseSchemaPath)
    /\ UNCHANGED <<pc, err, codelist_object>>
    /\ UNCHANGED <<standard, fetched, codelists, originals, names, at, patched>>
    /\ UNCHANGED schema_vars
    /\ UNCHANGED extensions_vars
    /\ UNCHANGED extract_vars

\* lines 77-82, when the builder has no extensions
CallPatchedReleaseSchema ==
    /\ pc = "start"
    /\ Len(served) < MaxCalls
    /\ \E b \in Builders : Serve(b, "patched_release_schema", ReleaseSchemaPath)
    /\ UNCHANGED <<pc, err, codelist_object>>
    /\ UNCHANGED <<standard, fetched, codelists, originals, names, at, patched>>
    /\ UNCHANGED schema_vars
    /\ UNCHANGED extensions_vars
    /\ UNCHANGED extract_vars

\* any sequence of calls on the two builders
CacheNext ==
    \/ CallGetStandardFileContents
    \/ CallStandardCodelists
    \/ CallPatchedCodelists
    \/ CallPatchedReleaseSchema

CacheSpec == Init /\ [][CacheNext]_vars

\* line 22: csv.DictReader(StringIO(fileobj.read().decode()))
ReadFile ==
    /\ pc = "start"
    /\ \E f \in Files : fileobj' = f
    /\ pc' = "headers"
    /\ UNCHANGED <<_file_cache, err, codelist_object, messages, cursor>>
    /\ UNCHANGED codelist_vars
    /\ UNCHANGED schema_vars
    /\ UNCHANGED extensions_vars
    /\ UNCHANGED cache_vars

\* lines 23-24: the next header is yielded
YieldHeader ==
    /\ pc = "headers"
    /\ Len(messages) < Len(fileobj.fieldnames)
    /\ messages' = Append(messages, HeaderMessage(fileobj.fieldnames[Len(messages) + 1]))
    /\ UNCHANGED <<pc, _file_cache, err, codelist_object, fileobj, cursor>>
    /\ UNCHANGED codelist_vars
    /\ UNCHANGED schema_vars
    /\ UNCHANGED extensions_vars
    /\ UNCHANGED cache_vars

\* line 26: the headers are done; the rows are gone through unless the file
\* is currency.csv
EndOfHeaders ==
    /\ pc = "headers"
    /\ Len(messages) = Len(fileobj.fieldnames)
    /\ IF Basename(fileobj.name) # "currency.csv"
       THEN pc' = "rows" /\ cursor' = <<1, 1>>
       ELSE pc' = "extracted" /\ UNCHANGED cursor
    /\ UNCHANGED <<_file_cache, err, codelist_object, fileobj, messages>>
    /\ UNCHANGED codelist_vars
    /\ UNCHANGED schema_vars
    /\ UNCHANGED extensions_vars
    /\ UNCHANGED cache_vars

\* lines 27-30: the next item of the row the loop is at
NextCell ==
    /\ pc = "rows"
    /\ cursor[1] <= Len(fileobj.lines)
    /\ messages' = messages \o CellMessages(cursor[1], fileobj.fieldnames[cursor[2]],
                                            fileobj.lines[cursor[1]][cursor[2]])
    /\ cursor' = IF cursor[2] < Len(fileobj.fieldnames)
                 THEN <<cursor[1], cursor[2] + 1>>
                 ELSE <<cursor[1] + 1, 1>>
    /\ UNCHANGED <<pc, _file_cache, err, codelist_object, fileobj>>
    /\ UNCHANGED codelist_vars
    /\ UNCHANGED schema_vars
    /\ UNCHANGED extensions_vars
    /\ UNCHANGED cache_vars

\* line 27: the rows are exhausted
EndOfRows ==
    /\ pc = "rows"
    /\ cursor[1] > Len(fileobj.lines)
    /\ pc' = "extracted"
    /\ UNCHANGED <<_file_cache, err, codelist_object>>
    /\ UNCHANGED codelist_vars
    /\ UNCHANGED schema_vars
    /\ UNCHANGED extensions_vars
    /\ UNCHANGED cache_vars
    /\ UNCHANGED extract_vars

\* one list(codelists_extract(fileobj, ...))
ExtractNext ==
    \/ ReadFile
    \/ YieldHeader
    \/ EndOfHeaders
    \/ NextCell
    \/ EndOfRows

ExtractSpec == Init /\ [][ExtractNext]_vars

-----------------------------------------------------------------------------
(* The vocabulary of the properties: what the extensions contributed, read
   off the files fetched, independently of the dicts the code builds *)

\* the places in `fetched` of the files called name
Declared(name) == {i \in DOMAIN fetched : fetched[i].name = name}

FirstOf(S) == CHOOSE i \in S : \A j \in S : i <= j

\* the lines of a text whose Deprecated cell is missing or empty
Live(content) ==
    SelectSeq(content.lines,
              LAMBDA line : \A j \in DOMAIN content.fieldnames :
                               content.fieldnames[j] = "Deprecated" => line[j] = "")

\* a line as a row: its cells but Deprecated under their columns, then the Extension tag
RowOf(content, line, tag) ==
    SelectSeq([j \in DOMAIN content.fieldnames |-> <<content.fieldnames[j], line[j]>>],
              LAMBDA c : c[1] # "Deprecated")
    \o << <<"Extension", tag>> >>

NonDeprecatedRows(content, tag) ==
    [i \in DOMAIN Live(content) |-> RowOf(content, Live(content)[i], tag)]

\* the rows the i-th file fetched contributes
RowsOfFetched(i) == NonDeprecatedRows(fetched[i].content, Extensions[fetched[i].ext].name)

\* the rows contributed to name by the files fetched from the i-th on, in
\* the order of the extensions
RECURSIVE RowsFrom(_, _)
RowsFrom(name, i) ==
    IF i > Len(fetched) THEN <<>>
    ELSE (IF fetched[i].name = name THEN RowsOfFetched(i) ELSE <<>>) \o RowsFrom(name, i + 1)

Contributed(name) == RowsFrom(name, 1)

\* the rows of the full codelist: those of the first extension to declare it
FullRows == RowsOfFetched(FirstOf(Declared(FullName)))

CodeSet(rows) == {Get(rows[i], "Code") : i \in DOMAIN rows}

Count(seq, x) == Cardinality({i \in DOMAIN seq : seq[i] = x})

\* the place of a name in the list the loop of line 120 goes through
Place(name) == CHOOSE i \in DOMAIN names : names[i] = name

\* the loop of line 120 has gone through the check of the patch called name
\* against the full codelist
Checked(name) ==
    /\ FullName \in Range(names)
    /\ name \in Range(names)
    /\ at > Place(name)

IsStandardRow(row) == Get(row, "Extension") = "OCDS Core"

Returned == pc \in {"patches", "patched"}

-----------------------------------------------------------------------------
(* codelist_patches *)

SameContent ==
    \A i \in Declared(FullName) :
        fetched[i].content = fetched[FirstOf(Declared(FullName))].content

\* C1: when two or more extensions declare the full codelist a.csv, the
\* fetch loop fails exactly when some later content differs from the first,
\* with the error naming a.csv; with identical contents no fetch fails, the
\* rows kept are those of the first declaration, and a run that declares
\* nothing but a.csv ends without error.
C1_FullCodelistConsistency ==
    Cardinality(Declared(FullName)) >= 2 =>
        IF SameContent
        THEN /\ err # DifferentMessage(FullName)
             /\ pc = "error" => at >= 1
             /\ (\A i \in DOMAIN fetched : fetched[i].name = FullName) => pc # "error"
             /\ Get(codelists, FullName) = FullRows
        ELSE /\ pc = "error"
             /\ err = DifferentMessage(FullName)
             /\ at = 0

C1_Witness ==
    /\ pc = "patched"
    /\ Cardinality(Declared(FullName)) >= 2
    /\ SameContent
    /\ \E i, j \in Declared(FullName) : fetched[i].ext # fetched[j].ext

\* C2: when no extension declares the full a.csv, what codelist_patches()
\* returns for +a.csv and for -a.csv is, each under its own key, the
\* non-deprecated rows of every extension that declared it, in the order of
\* the extensions; a patch nobody declared has no entry.
C2_PatchRowsConcatenated ==
    Returned /\ Declared(FullName) = {} =>
        \A n \in {PlusName, MinusName} :
            IF Declared(n) = {} THEN ~Has(codelists, n)
            ELSE Has(codelists, n) /\ Get(codelists, n) = Contributed(n)

C2_Witness ==
    /\ pc = "patches"
    /\ Declared(FullName) = {}
    /\ Cardinality(Declared(PlusName)) >= 2
    /\ Declared(MinusName) # {}
    /\ \E i \in Declared(PlusName) : fetched[i].content = CsvDY
    /\ \E i, j \in DOMAIN Get(codelists, PlusName) :
          Get(Get(codelists, PlusName)[i], "Extension")
              # Get(Get(codelists, PlusName)[j], "Extension")

\* C3: once the loop has checked +a.csv against the full a.csv: if every
\* code of the rows contributed to +a.csv is a code of a.csv, +a.csv is gone
\* from the dict (and so from what is returned), a.csv is kept with its
\* rows, and the message "a.csv has the codes added by +a.csv, ignoring
\* +a.csv" was logged once; otherwise the run failed at that check, with
\* the error "<code> added by +a.csv, but not in a.csv" for one such code.
C3_AdditivePatchCollapsed ==
    Checked(PlusName) =>
        IF CodeSet(Contributed(PlusName)) \subseteq CodeSet(FullRows)
        THEN /\ ~Has(codelists, PlusName)
             /\ Has(codelists, FullName)
             /\ Get(codelists, FullName) = FullRows
             /\ Count(log, HasAddedMessage(PlusName)) = 1
             /\ pc = "error" => at > Place(PlusName) + 1
        ELSE /\ pc = "error"
             /\ at = Place(PlusName) + 1
             /\ \E c \in CodeSet(Contributed(PlusName)) \ CodeSet(FullRows) :
                   err = AddedMessage(c, PlusName)
             /\ Count(log, HasAddedMessage(PlusName)) = 0

C3_Witness ==
    /\ pc = "patches"
    /\ Declared(FullName) # {}
    /\ Declared(PlusName) # {}
    /\ Contributed(PlusName) # <<>>
    /\ ~Has(codelists, PlusName)

\* C4: once the loop has checked -a.csv against the full a.csv: if no code
\* of the rows contributed to -a.csv is a code of a.csv, -a.csv is gone from
\* the dict (and so from what is returned), a.csv is kept with its rows, and
\* the message "a.csv has no codes removed by -a.csv, ignoring -a.csv" was
\* logged; otherwise the run failed at that check, with the error "<code>
\* removed by -a.csv, but in a.csv" for one such code.
C4_SubtractivePatchCollapsed ==
    Checked(MinusName) =>
        IF CodeSet(Contributed(MinusName)) \cap CodeSet(FullRows) = {}
        THEN /\ ~Has(codelists, MinusName)
             /\ Has(codelists, FullName)
             /\ Get(codelists, FullName) = FullRows
             /\ Count(log, HasNoRemovedMessage(MinusName)) = 1
             /\ pc = "error" => at > Place(MinusName) + 1
        ELSE /\ pc = "error"
             /\ at = Place(MinusName) + 1
             /\ \E c \in CodeSet(Contributed(MinusName)) \cap CodeSet(FullRows) :
                   err = RemovedMessage(c, MinusName)
             /\ Count(log, HasNoRemovedMessage(MinusName)) = 0

C4_Witness ==
    /\ pc = "patches"
    /\ Declared(FullName) # {}
    /\ Declared(MinusName) # {}
    /\ Contributed(MinusName) # <<>>
    /\ ~Has(codelists, MinusName)

-----------------------------------------------------------------------------
(* patched_codelists *)

\* an extension contributes C, +C or -C
Touched(C) ==
    \E i \in DOMAIN fetched : fetched[i].name \in {C, <<"+">> \o C, <<"-">> \o C}

\* C5: a codelist of the standard that no extension contributes to, adds to
\* or removes from has in patched_codelists() the rows standard_codelists()
\* gives it.
C5_UntouchedCodelistsKept ==
    pc = "patched" =>
        \A C \in Range(Keys(standard_codelists(_file_cache).codelists)) :
            ~Touched(C) =>
                /\ Has(patched, C)
                /\ Get(patched, C) = Get(standard_codelists(_file_cache).codelists, C)

C5_Witness ==
    /\ pc = "patched"
    /\ Has(standard, FullName)
    /\ Get(patched, FullName) # Get(standard, FullName)
    /\ \E C \in Range(Keys(standard)) : ~Touched(C) /\ Get(patched, C) # <<>>

\* C6: when +a.csv is declared for the standard's a.csv and neither a.csv
\* nor -a.csv is, the patched a.csv is the standard's rows followed by the
\* rows contributed to +a.csv in the order of the extensions, a code
\* already there included.
C6_AddedRowsAppended ==
    /\ pc = "patched"
    /\ Has(standard, FullName)
    /\ Declared(PlusName) # {}
    /\ Declared(FullName) = {}
    /\ Declared(MinusName) = {}
    => Get(patched, FullName) = Get(standard, FullName) \o Contributed(PlusName)

C6_Witness ==
    /\ pc = "patched"
    /\ Has(standard, FullName)
    /\ Cardinality(Declared(PlusName)) >= 2
    /\ Declared(FullName) = {}
    /\ Declared(MinusName) = {}
    /\ CodeSet(Get(standard, FullName)) \cap CodeSet(Contributed(PlusName)) # {}
    /\ Len(Get(patched, FullName)) > Cardinality(CodeSet(Get(patched, FullName)))

\* C7: when -a.csv is declared for the standard's a.csv and the full a.csv
\* is not, the standard's rows in the patched a.csv are the standard's rows
\* whose code no extension contributed to -a.csv, in their order.
C7_RemovedCodesGone ==
    /\ pc = "patched"
    /\ Has(standard, FullName)
    /\ Declared(MinusName) # {}
    /\ Declared(FullName) = {}
    => SelectSeq(Get(patched, FullName), IsStandardRow)
         = SelectSeq(Get(standard, FullName),
                     LAMBDA row : Get(row, "Code") \notin CodeSet(Contributed(MinusName)))

C7_Witness ==
    /\ pc = "patched"
    /\ Has(standard, FullName)
    /\ Declared(FullName) = {}
    /\ \E i, j \in Declared(MinusName) :
          /\ fetched[i].ext # fetched[j].ext
          /\ CodeSet(RowsOfFetched(i)) # CodeSet(RowsOfFetched(j))
          /\ CodeSet(RowsOfFetched(i)) \cup CodeSet(RowsOfFetched(j))
                \subseteq CodeSet(Get(standard, FullName))
    /\ Len(Get(patched, FullName)) < Len(Get(standard, FullName))

\* C8: when an extension contributes the full a.csv and the standard has an
\* a.csv, the patched a.csv is the contributed non-deprecated rows and
\* nothing else: no row of the standard is in it.
C8_FullCodelistReplaces ==
    /\ pc = "patched"
    /\ Has(standard, FullName)
    /\ Declared(FullName) # {}
    => /\ Get(patched, FullName) = FullRows
       /\ \A i \in DOMAIN Get(patched, FullName) : ~IsStandardRow(Get(patched, FullName)[i])

C8_Witness ==
    /\ pc = "patched"
    /\ Has(standard, FullName)
    /\ Get(standard, FullName) # <<>>
    /\ Declared(FullName) # {}
    /\ fetched[FirstOf(Declared(FullName))].content = CsvDY
    /\ Len(Get(patched, FullName)) = 1

-----------------------------------------------------------------------------
(* release_schema_patch and patched_release_schema *)

\* the object-key paths of the extensions' patches
Paths == { <<k>> : k \in JsonKeys } \cup { <<k, l>> : k \in JsonKeys, l \in JsonKeys }

Missing == [t |-> "missing"]

\* the value at a path of a JSON value, or Missing
RECURSIVE At(_, _)
At(v, path) ==
    IF path = <<>> THEN v
    ELSE IF v.t = "obj" /\ Has(v.o, Head(path))
         THEN At(Get(v.o, Head(path)), Tail(path))
         ELSE Missing

\* the i-th extension's release-schema.json has a value at the path
Assigns(i, path) == At(remote_schemas[i], path) # Missing

\* the last extension to assign the path assigned null
NullAssignedLast(path) ==
    \E i \in DOMAIN remote_schemas :
        /\ At(remote_schemas[i], path) = JNull
        /\ \A j \in DOMAIN remote_schemas : j > i => ~Assigns(j, path)

\* an extension after the last to assign the path gave a key above it a
\* value that is no object
ReplacedAbove(path) ==
    \E i \in DOMAIN remote_schemas :
        /\ Assigns(i, path)
        /\ \A j \in DOMAIN remote_schemas : j > i => ~Assigns(j, path)
        /\ \E j \in DOMAIN remote_schemas, n \in 1 .. (Len(path) - 1) :
              /\ j > i
              /\ At(remote_schemas[j], SubSeq(path, 1, n)) # Missing
              /\ At(remote_schemas[j], SubSeq(path, 1, n)).t # "obj"

\* the strings of a JSON value: its keys and its string values
RECURSIVE Strings(_)
Strings(v) ==
    IF v.t = "str" THEN {v.s}
    ELSE IF v.t = "obj"
         THEN {v.o[i][1] : i \in DOMAIN v.o} \cup UNION {Strings(v.o[i][2]) : i \in DOMAIN v.o}
         ELSE {}

\* C9, as stated: in what release_schema_patch() returns, every path whose
\* last assignment by an extension was null is present with the value
\* null, and the text REPLACE_WITH_NULL is in no string.
C9_AsStated ==
    pc = "patch" =>
        /\ \A path \in Paths : NullAssignedLast(path) => At(patch, path) = JNull
        /\ \A str \in Strings(patch) : Sentinel \notin Range(str)

\* C9, amended: in what release_schema_patch() returns, every path whose
\* last assignment by an extension was null, and above which no later
\* extension put a value that is no object, is present with the value null;
\* no string is the text REPLACE_WITH_NULL, and a string that holds it is
\* a longer string of some extension's release-schema.json.
C9_NullsKept ==
    pc = "patch" =>
        /\ \A path \in Paths :
              NullAssignedLast(path) /\ ~ReplacedAbove(path) => At(patch, path) = JNull
        /\ \A str \in Strings(patch) :
              /\ str # <<Sentinel>>
              /\ Sentinel \in Range(str) =>
                    \E i \in DOMAIN remote_schemas : str \in Strings(remote_schemas[i])

C9_Witness ==
    /\ pc = "patch"
    /\ \E path \in Paths :
          /\ Len(path) = 2
          /\ NullAssignedLast(path)
          /\ ~ReplacedAbove(path)
          /\ At(patch, path) = JNull
          /\ \E i \in DOMAIN remote_schemas : At(remote_schemas[i], <<path[1]>>) = JNum

\* the standard's release-schema.json, as read
BaseSchema == _json_loads(Get(_file_cache, <<"release-schema.json">>)).v

\* C10: a path whose value in the consolidated patch is null has no value
\* in what patched_release_schema() returns, whether the standard's schema
\* has one there or not.
C10_NullKeysRemoved ==
    pc = "schema" =>
        \A path \in Paths : At(patch, path) = JNull => At(schema, path) = Missing

C10_Witness ==
    /\ pc = "schema"
    /\ \E path \in Paths : At(patch, path) = JNull /\ At(BaseSchema, path) # Missing
    /\ \E path \in Paths : At(patch, path) = JNull /\ At(BaseSchema, path) = Missing

-----------------------------------------------------------------------------
(* The merge, as the two methods use it *)

\* the paths at which the patches of the model can hold an object
ObjectPaths == {<<>>} \cup { <<k>> : k \in JsonKeys }

\* what merge_obj merges an object into: the target when it is an object
AsObject(v) == IF v.t = "obj" THEN v ELSE JObj(<<>>)

\* what line 73 merges: the extension's release-schema.json with its nulls replaced
Loaded(p) == _json_loads(WithSentinels(Dumps(p))).v

\* at every path where p holds an object, result holds an object that has the
\* target's keys p does not mention, unchanged, and the scalars p sets
MergedInto(target, p, result) ==
    \A path \in ObjectPaths :
        At(p, path).t = "obj" =>
            LET q == At(p, path)
                t == AsObject(At(target, path))
                r == At(result, path)
            IN  /\ r.t = "obj"
                /\ \A k \in JsonKeys :
                      LET qk == At(q, <<k>>)
                      IN  /\ qk = Missing => At(r, <<k>>) = At(t, <<k>>)
                          /\ qk.t \in {"num", "str"} => At(r, <<k>>) = qk
                          /\ qk.t = "obj" => At(r, <<k>>).t = "obj"

\* C11: merging is recursive, in both methods. When release_schema_patch()
\* merges an extension's patch into what it has accumulated, and when
\* patched_release_schema() merges the consolidated patch into the
\* standard's schema: at every path where the patch holds an object, the
\* result holds an object with every key of the target the patch does not
\* mention, unchanged, and with every key the patch sets to a number or a
\* string set to that value, whatever the target held there; a key the
\* patch sets to an object holds an object.
C11_MergeIsRecursive ==
    [][ /\ (pc = "merging" /\ pc' = "merging")
            => MergedInto(profile_patch, Loaded(remote_schemas'[Len(remote_schemas')]),
                          profile_patch')
        /\ (pc = "patch" /\ pc' = "schema") => MergedInto(BaseSchema, patch, schema')
      ]_vars

C11_Witness ==
    /\ pc = "schema"
    /\ \E k \in JsonKeys, l \in JsonKeys, m \in JsonKeys :
          /\ At(patch, <<k>>).t = "obj"
          /\ At(BaseSchema, <<k>>).t = "obj"
          /\ At(patch, <<k, l>>) = Missing
          /\ At(BaseSchema, <<k, l>>) # Missing
          /\ At(schema, <<k, l>>) = At(BaseSchema, <<k, l>>)
          /\ At(patch, <<k, m>>).t = "str"
          /\ At(schema, <<k, m>>) = At(patch, <<k, m>>)
    /\ \E i, j \in DOMAIN remote_schemas :
          i < j /\ remote_schemas[i].o # <<>> /\ remote_schemas[j].o # <<>>
          /\ Keys(remote_schemas[i].o) # Keys(remote_schemas[j].o)

\* the j-th extension is the last to assign the path, and nothing above the
\* path was replaced after it
AssignsLast(j, path) ==
    /\ Assigns(j, path)
    /\ \A n \in DOMAIN remote_schemas : n > j => ~Assigns(n, path)
    /\ ~ReplacedAbove(path)

\* C12, as stated, for the values that are no objects: when two extensions
\* assign different values to a path, what release_schema_patch() returns
\* has at that path the value the later of them assigned.
C12_LaterValueWins ==
    pc = "patch" =>
        \A path \in Paths : \A i \in DOMAIN remote_schemas, j \in DOMAIN remote_schemas :
            /\ i < j
            /\ Assigns(i, path)
            /\ AssignsLast(j, path)
            /\ At(remote_schemas[j], path).t # "obj"
            /\ At(remote_schemas[i], path) # At(remote_schemas[j], path)
            => At(patch, path) = At(remote_schemas[j], path)

\* a string whose text holds a colon, whitespace and the word null
HoldsColonNull(v) ==
    /\ v.t = "str"
    /\ \E n \in 1 .. (Len(v.s) - 2) : v.s[n] = ":" /\ v.s[n + 1] = " " /\ v.s[n + 2] = "null"

\* C13, as stated: a string value of an extension's patch that holds a colon
\* followed by the word null is not touched by the substitution of line 72:
\* the text still parses, to the same string, reading the extension raises
\* no error, and what release_schema_patch() returns has that string at its
\* path when that extension is the last to assign it.
C13_StringsNotSubstituted ==
    \A i \in DOMAIN remote_schemas, path \in Paths :
        HoldsColonNull(At(remote_schemas[i], path)) =>
            /\ _json_loads(WithSentinels(Dumps(remote_schemas[i]))).ok
            /\ At(Loaded(remote_schemas[i]), path) = At(remote_schemas[i], path)
            /\ err # JSONDecodeError
            /\ (pc = "patch" /\ AssignsLast(i, path))
                  => At(patch, path) = At(remote_schemas[i], path)

-----------------------------------------------------------------------------
(* The rows of the codelists *)

\* the codelist files of the standard, as get_standard_file_contents() caches them
StandardFiles == {i \in DOMAIN _file_cache : IsCodelistPath(_file_cache[i][1])}

-----------------------------------------------------------------------------
(* The log *)

\* the cell of a line under a column
Cell(content, line, column) ==
    line[CHOOSE j \in DOMAIN content.fieldnames : content.fieldnames[j] = column]

\* the lines of a text whose Deprecated cell is not empty
Dead(content) ==
    SelectSeq(content.lines,
              LAMBDA line : \E j \in DOMAIN content.fieldnames :
                               content.fieldnames[j] = "Deprecated" /\ line[j] # "")

\* one message per deprecated line of a file, in the order of the lines
SkipsOf(content, name) ==
    [i \in DOMAIN Dead(content) |-> SkipMessage(Cell(content, Dead(content)[i], "Code"), name)]

\* the messages for the standard's codelist files from the i-th cached file on
RECURSIVE StandardSkips(_)
StandardSkips(i) ==
    IF i > Len(_file_cache) THEN <<>>
    ELSE (IF i \in StandardFiles
          THEN SkipsOf(_file_cache[i][2], <<Basename(_file_cache[i][1])>>)
          ELSE <<>>) \o StandardSkips(i + 1)

\* the messages for the extensions' files from the i-th fetched on
RECURSIVE FetchSkips(_)
FetchSkips(i) ==
    IF i > Len(fetched) THEN <<>>
    ELSE SkipsOf(fetched[i].content, fetched[i].name) \o FetchSkips(i + 1)

\* the patch called name is consistent with the full codelist
Consistent(name) ==
    IF StartsWithPlus(name)
    THEN CodeSet(Contributed(name)) \subseteq CodeSet(FullRows)
    ELSE CodeSet(Contributed(name)) \cap CodeSet(FullRows) = {}

\* the messages for the patches collapsed among names[m], ..., names[at - 1]
RECURSIVE CollapseMessages(_)
CollapseMessages(m) ==
    IF m >= at \/ m > Len(names) THEN <<>>
    ELSE (IF StartsWithSign(names[m]) /\ FullName \in Range(names) /\ Consistent(names[m])
          THEN << IF StartsWithPlus(names[m]) THEN HasAddedMessage(names[m])
                  ELSE HasNoRemovedMessage(names[m]) >>
          ELSE <<>>) \o CollapseMessages(m + 1)

\* C15: the log of one call of patched_codelists() is, in order, one message
\* per deprecated row of the standard's codelists (all that
\* standard_codelists() logs), one per deprecated row of the extensions'
\* files, and one per patch collapsed in favour of the full codelist, each
\* row's message naming its code and its codelist, and nothing else; and
\* the call is aborted only by a consistency error or a missing codelist,
\* never by a deprecated row or a collapsed patch.
C15_LogIsInformational ==
    /\ log = StandardSkips(1) \o FetchSkips(1) \o CollapseMessages(1)
    /\ pc = "error" =>
          \/ err = DifferentMessage(FullName) /\ ~SameContent
          \/ /\ Declared(FullName) # {}
             /\ \E c \in CodeSet(Contributed(PlusName)) \ CodeSet(FullRows) :
                   err = AddedMessage(c, PlusName)
          \/ /\ Declared(FullName) # {}
             /\ \E c \in CodeSet(Contributed(MinusName)) \cap CodeSet(FullRows) :
                   err = RemovedMessage(c, MinusName)
          \/ err = KeyErrorMessage(FullName) /\ ~Has(standard, FullName)

C15_Witness ==
    /\ pc = "patched"
    /\ StandardSkips(1) # <<>>
    /\ FetchSkips(1) # <<>>
    /\ CollapseMessages(1) # <<>>
    /\ Len(log) >= 3

-----------------------------------------------------------------------------
(* The deprecation filter *)

\* the dicts of the rows of a Codelist
Data(self) == [i \in DOMAIN self.rows |-> self.rows[i].data]

\* C16: the deprecation filter is idempotent. Whatever rows a Codelist
\* holds, remove_deprecated_codes() applied to what remove_deprecated_codes()
\* left drops no row and changes no row; and the loop of _append_extension
\* applied to the rows it returned, for the same extension, returns those
\* rows and logs nothing.
C16_FilterIdempotent ==
    codelist_object # NoCodelist =>
        /\ LET once == remove_deprecated_codes(codelist_object)
           IN  remove_deprecated_codes(once) = once
        /\ \A e \in DOMAIN Extensions :
              LET once == AppendFrom(Data(codelist_object), 1, codelist_object.name,
                                     Extensions[e].name)
              IN  AppendFrom(once.rows, 1, codelist_object.name, Extensions[e].name)
                    = [rows |-> once.rows, log |-> <<>>]

C16_Witness ==
    /\ codelist_object # NoCodelist
    /\ \E i \in DOMAIN codelist_object.rows : IsDeprecated(codelist_object.rows[i].data)
    /\ \E i \in DOMAIN codelist_object.rows :
          /\ Has(codelist_object.rows[i].data, "Deprecated")
          /\ ~IsDeprecated(codelist_object.rows[i].data)
    /\ Len(remove_deprecated_codes(codelist_object).rows) = 2
    /\ Len(codelist_object.rows) = 3

-----------------------------------------------------------------------------
(* The Extension tags *)

Tags(rows) == [i \in DOMAIN rows |-> Get(rows[i], "Extension")]

\* the names of the extensions the files called name were fetched from, once
\* per row that is not deprecated, from the i-th file fetched on
RECURSIVE OriginsFrom(_, _)
OriginsFrom(name, i) ==
    IF i > Len(fetched) THEN <<>>
    ELSE (IF fetched[i].name = name
          THEN [j \in DOMAIN Live(fetched[i].content) |-> Extensions[fetched[i].ext].name]
          ELSE <<>>) \o OriginsFrom(name, i + 1)

\* the row is a row of a file called name, tagged with the name of the
\* extension it was fetched from
FromExtension(row, name) ==
    \E i \in Declared(name) :
        /\ row \in Range(RowsOfFetched(i))
        /\ Get(row, "Extension") = Extensions[fetched[i].ext].name

\* C17: every row codelist_patches() holds is tagged with the name of the
\* extension it was fetched from; every row standard_codelists() returns is
\* tagged 'OCDS Core'; and every row patched_codelists() returns is a row of
\* the standard tagged 'OCDS Core' or a row of an extension's file tagged
\* with that extension's name.
C17_RowsTaggedWithOrigin ==
    /\ \A n \in {PlusName, MinusName} :
          Has(codelists, n) => Tags(Get(codelists, n)) = OriginsFrom(n, 1)
    /\ Has(codelists, FullName) =>
          \A i \in DOMAIN Get(codelists, FullName) :
              Get(Get(codelists, FullName)[i], "Extension")
                  = Extensions[fetched[FirstOf(Declared(FullName))].ext].name
    /\ \A i \in DOMAIN standard : \A j \in DOMAIN standard[i][2] :
          IsStandardRow(standard[i][2][j])
    /\ pc = "patched" =>
          \A i \in DOMAIN patched : \A j \in DOMAIN patched[i][2] :
              LET C   == patched[i][1]
                  row == patched[i][2][j]
              IN  \/ IsStandardRow(row) /\ Has(standard, C) /\ row \in Range(Get(standard, C))
                  \/ FromExtension(row, C)
                  \/ FromExtension(row, <<"+">> \o C)

C17_Witness ==
    /\ pc = "patched"
    /\ Has(patched, FullName)
    /\ \E i, j, k \in DOMAIN Get(patched, FullName) :
          /\ Get(Get(patched, FullName)[i], "Extension") = "OCDS Core"
          /\ Get(Get(patched, FullName)[j], "Extension") = Extensions[1].name
          /\ Get(Get(patched, FullName)[k], "Extension") = Extensions[2].name

-----------------------------------------------------------------------------
(* Patches of a codelist that does not exist *)

\* a patch of a.csv is declared, a.csv is not, and the standard has no a.csv
PatchOfMissingCodelist ==
    /\ pc # "start"
    /\ ~Has(standard, FullName)
    /\ Declared(FullName) = {}
    /\ Declared(PlusName) # {} \/ Declared(MinusName) # {}

\* C20: when +a.csv or -a.csv is declared and a.csv is neither a codelist
\* of the standard nor declared in full by an extension, patched_codelists()
\* returns nothing: the patch is still there when codelist_patches()
\* returns, applying it raises KeyError for a.csv, and no a.csv is created.
C20_MissingCodelistIsFatal ==
    PatchOfMissingCodelist =>
        /\ pc # "patched"
        /\ pc = "patches" =>
              Has(codelists, PlusName) \/ Has(codelists, MinusName)
        /\ pc = "error" =>
              /\ err = KeyErrorMessage(FullName)
              /\ ~Has(patched, FullName)
        /\ pc = "patches" => Applied(standard, codelists).err = KeyErrorMessage(FullName)

C20_Witness ==
    /\ PatchOfMissingCodelist
    /\ pc = "error"
    /\ err = KeyErrorMessage(FullName)
    /\ Declared(PlusName) # {}
    /\ Declared(MinusName) # {}

-----------------------------------------------------------------------------
(* extensions() *)

InRegistry(item) ==
    \E n \in DOMAIN Registry : Registry[n].id = item[1] /\ Registry[n].version = item[2]

\* C18: what extensions() has yielded is, entry by entry and in the order of
\* the mapping, the registry's row with the entry's identifier and version;
\* when it is exhausted it has yielded one row per entry; it fails, with
\* DoesNotExist, exactly at an entry whose identifier and version the
\* registry does not have, and is never exhausted past such an entry.
C18_OneExtensionPerEntry ==
    /\ Len(yielded) <= Len(extension_versions)
    /\ \A i \in DOMAIN yielded :
          /\ yielded[i].id = extension_versions[i][1]
          /\ yielded[i].version = extension_versions[i][2]
          /\ yielded[i] \in Range(Registry)
    /\ pc = "exhausted" =>
          /\ Len(yielded) = Len(extension_versions)
          /\ \A i \in DOMAIN extension_versions : InRegistry(extension_versions[i])
    /\ pc = "error" =>
          /\ err = DoesNotExist
          /\ ~InRegistry(extension_versions[Len(yielded) + 1])
    /\ pc = "extensions" /\ Len(yielded) < Len(extension_versions)
          /\ ~InRegistry(extension_versions[Len(yielded) + 1])
          => Resolved(extension_versions[Len(yielded) + 1]) = <<>>

C18_Witness ==
    /\ pc = "exhausted"
    /\ Len(yielded) = 3
    /\ yielded[1].id = "e3"
    /\ yielded[2].id = "e1" /\ yielded[2].version = "v1"
    /\ yielded[3].id = "e2"

-----------------------------------------------------------------------------
(* The cache of the standard's files *)

CallsOf(b) == { i \in DOMAIN served : served[i].builder = b }

DownloadsOf(b) == { i \in CallsOf(b) : served[i].downloaded }

\* the first archive with files that builder b downloaded, if any
KeptBy(b) ==
    LET with == { i \in DownloadsOf(b) : served[i].files # <<>> }
    IN  IF with = {} THEN <<>>
        ELSE served[CHOOSE i \in with : \A j \in with : i <= j].files

\* C19: over any calls on a builder, the archive is downloaded at most once,
\* by the first call that gets a response and never before a call; two
\* calls of the same method for the same filename that return, return the
\* same; and a builder's cache holds what that builder downloaded, which is
\* what its calls return from.
C19_DownloadedOncePerInstance ==
    \A b \in Builders :
        /\ Cardinality(DownloadsOf(b)) <= 1
        /\ CallsOf(b) = {} => CacheOf(b) = <<>>
        /\ \A i \in DownloadsOf(b) : \A j \in CallsOf(b) :
              j < i => ~served[j].ok /\ served[j].v = HTTPError
        /\ \A i \in CallsOf(b), j \in CallsOf(b) :
              /\ i < j
              /\ served[i].call = served[j].call
              /\ served[i].basename = served[j].basename
              /\ served[i].ok /\ served[j].ok
              => served[i].v = served[j].v
        /\ CacheOf(b) = KeptBy(b)
        /\ \A i \in CallsOf(b) :
              served[i].call = "get_standard_file_contents" /\ served[i].ok
              => /\ Has(CacheOf(b), served[i].basename)
                 /\ served[i].v = Get(CacheOf(b), served[i].basename)

-----------------------------------------------------------------------------
(* The names and the order of what is returned *)

\* C21: the names of what patched_codelists() returns are the names of the
\* standard's codelists, in their order, followed by the full codelist an
\* extension contributed when the standard has none of that name; no name
\* is there twice and none starts with + or -.
C21_PatchedNames ==
    pc = "patched" =>
        /\ Keys(patched) =
              Keys(standard)
              \o (IF Declared(FullName) # {} /\ ~Has(standard, FullName)
                  THEN <<FullName>> ELSE <<>>)
        /\ \A i \in DOMAIN patched, j \in DOMAIN patched :
              i # j => patched[i][1] # patched[j][1]
        /\ \A i \in DOMAIN patched : ~StartsWithSign(patched[i][1])

C21_Witness ==
    /\ pc = "patched"
    /\ ~Has(standard, FullName)
    /\ Cardinality(Declared(FullName)) >= 2
    /\ Keys(patched) = << <<"b.csv">>, FullName >>

\* C27: after patched_codelists(), when -a.csv remained after collapsing,
\* no row of a.csv has a code listed in -a.csv, whichever of +a.csv and
\* -a.csv was declared first.
C27_NoRemovedCodeLeft ==
    pc = "patched" /\ Has(codelists, MinusName) =>
        \A i \in DOMAIN Get(patched, FullName) :
            Get(Get(patched, FullName)[i], "Code") \notin CodeSet(Get(codelists, MinusName))

\* the names of the files fetched from the i-th on, each where it is declared
\* for the first time
RECURSIVE FirstDeclaredFrom(_)
FirstDeclaredFrom(i) ==
    IF i > Len(fetched) THEN <<>>
    ELSE (IF i = FirstOf(Declared(fetched[i].name)) THEN <<fetched[i].name>> ELSE <<>>)
         \o FirstDeclaredFrom(i + 1)

\* C28: what codelist_patches() returns never holds a.csv together with
\* +a.csv or -a.csv; its names are, in the order of their first
\* declaration, the full codelist if declared and the patches declared
\* when the full codelist was not.
C28_PatchesAndTargetsApart ==
    Returned =>
        /\ Has(codelists, FullName) =>
              ~Has(codelists, PlusName) /\ ~Has(codelists, MinusName)
        /\ Keys(codelists) =
              SelectSeq(FirstDeclaredFrom(1),
                        LAMBDA name : StartsWithSign(name) => Declared(Tail(name)) = {})

C28_Witness ==
    /\ pc = "patches"
    /\ Len(fetched) = 3
    /\ fetched[1].name = MinusName
    /\ fetched[2].name = FullName
    /\ fetched[3].name = PlusName
    /\ Keys(codelists) = <<FullName>>

-----------------------------------------------------------------------------
(* The order of the extensions *)

\* the orders in which the extensions can be registered
Orders ==
    { o \in [1 .. Len(Extensions) -> 1 .. Len(Extensions)] :
        \A i, j \in DOMAIN o : i # j => o[i] # o[j] }

\* the files fetched, as they come when the extensions are registered in
\* the order o, from the k-th extension of that order on
RECURSIVE ReorderedFrom(_, _)
ReorderedFrom(o, k) ==
    IF k > Len(o) THEN <<>>
    ELSE SelectSeq(fetched, LAMBDA f : f.ext = o[k]) \o ReorderedFrom(o, k + 1)

Reordered(o) == ReorderedFrom(o, 1)

\* a row without its tag
Untagged(row) == SelectSeq(row, LAMBDA c : c[1] # "Extension")

UntaggedRows(rows) == {Untagged(rows[i]) : i \in DOMAIN rows}

\* codelist_patches() has failed on an assertion, or has just returned
PatchesFailed == pc = "error" /\ err # KeyErrorMessage(FullName)
PatchesReturned == pc = "patches"

\* C22: when codelist_patches() has returned or failed on the files of some
\* extensions, then on the same files with the extensions registered in any
\* other order it fails if and only if it failed, and when it returns, it
\* returns the same set of names and under each name the same set of rows,
\* tags aside.
C22_ChecksCommute ==
    PatchesFailed \/ PatchesReturned =>
        /\ \E same \in {codelist_patches(fetched)} :
              /\ same.err = (IF PatchesFailed THEN err ELSE <<>>)
              /\ same.codelists = codelists
        /\ \A files \in {Reordered(o) : o \in Orders} \ {fetched} :
              \E other \in {codelist_patches(files)} :
                 /\ (other.err # <<>>) <=> PatchesFailed
                 /\ PatchesReturned =>
                       /\ Range(Keys(other.codelists)) = Range(Keys(codelists))
                       /\ \A i \in DOMAIN codelists :
                             UntaggedRows(Get(other.codelists, codelists[i][1]))
                                = UntaggedRows(codelists[i][2])

C22_Witness ==
    /\ pc = "patches"
    /\ Cardinality(Declared(FullName)) >= 2
    /\ Declared(MinusName) # {}
    /\ \E i, j \in DOMAIN fetched : fetched[i].ext # fetched[j].ext
    /\ \E o \in Orders :
          /\ Reordered(o) # fetched
          /\ codelist_patches(Reordered(o)).err = <<>>
          /\ codelist_patches(Reordered(o)).codelists # codelists

-----------------------------------------------------------------------------
(* The columns of an additive patch *)

\* the header of the standard's a.csv, once the Extension column is added
BaseFieldnames ==
    SelectSeq(Get(_file_cache, <<"codelists", "a.csv">>).fieldnames,
              LAMBDA f : f # "Deprecated")
    \o <<"Extension">>

\* the test of process_codelist on the i-th file fetched, a +a.csv: its
\* columns are not those of the codelist it adds to
DifferentFields(i) ==
    pluck_fieldnames(BaseFieldnames)
        # pluck_fieldnames(fetched[i].content.fieldnames) \o <<"Extension">>

\* C23: when a +a.csv that is applied to the standard's a.csv has columns
\* other than those of a.csv, patched_codelists() does not return: it fails,
\* and the rows are not appended.
C23_DifferentFieldsAreFatal ==
    /\ Has(standard, FullName)
    /\ Has(codelists, PlusName)
    /\ \E i \in Declared(PlusName) : DifferentFields(i)
    => pc # "patched"

-----------------------------------------------------------------------------
(* The name of a Codelist *)

\* C25: for every Codelist, patch is true exactly when the name begins with
\* + or -; patch is true exactly when addend or subtrahend is, and these two
\* are never both true; basename is the name without its first sign when
\* patch is true and the name otherwise, so that +a.csv, -a.csv and a.csv
\* have the basename a.csv.
C25_NameProperties ==
    codelist_object # NoCodelist =>
        LET name == codelist_object.name
            signed == Head(name) = "+" \/ Head(name) = "-"
        IN  /\ Codelist_patch(codelist_object) <=> signed
            /\ Codelist_patch(codelist_object)
                  <=> (Codelist_addend(codelist_object) \/ Codelist_subtrahend(codelist_object))
            /\ ~(Codelist_addend(codelist_object) /\ Codelist_subtrahend(codelist_object))
            /\ Codelist_addend(codelist_object) <=> Head(name) = "+"
            /\ Codelist_subtrahend(codelist_object) <=> Head(name) = "-"
            /\ Codelist_basename(codelist_object)
                  = (IF signed THEN SubSeq(name, 2, Len(name)) ELSE name)
            /\ name \in CodelistNames => Codelist_basename(codelist_object) = FullName

C25_Witness ==
    /\ codelist_object.name = <<"-", "+", "a.csv">>
    /\ Codelist_basename(codelist_object) = PlusName
    /\ Codelist_subtrahend(codelist_object)
    /\ Len(codelist_object.rows) = 2

-----------------------------------------------------------------------------
(* One merge of the consolidated patch, or one merge per extension *)

\* two JSON values are equal as Python compares dicts: the order of the keys aside
RECURSIVE SameJson(_, _)
SameJson(v, w) ==
    IF v.t = "obj" /\ w.t = "obj"
    THEN /\ Range(Keys(v.o)) = Range(Keys(w.o))
         /\ \A i \in DOMAIN v.o : SameJson(v.o[i][2], Get(w.o, v.o[i][1]))
    ELSE v = w

\* C26: what patched_release_schema() returns is the standard's schema
\* merged with the release-schema.json of each extension, one after the
\* other in the order of the extensions, as apply_extensions merges them.
C26_SameAsOneByOne ==
    pc = "schema" => SameJson(schema, MergedOneByOne(BaseSchema, remote_schemas, 1))

-----------------------------------------------------------------------------
(* The strings of the consolidated patch *)

\* C29: in what release_schema_patch() returns, a path whose last
\* assignment by an extension was a string has that string, whatever its
\* text, the text REPLACE_WITH_NULL included; and a path has null only when
\* its last assignment by an extension was null.
C29_StringsPreserved ==
    pc = "patch" =>
        \A path \in Paths : \A j \in DOMAIN remote_schemas :
            AssignsLast(j, path) =>
                /\ At(remote_schemas[j], path).t = "str"
                      => At(patch, path) = At(remote_schemas[j], path)
                /\ At(patch, path) = JNull => At(remote_schemas[j], path) = JNull

-----------------------------------------------------------------------------
(* The messages of a codelist file *)

\* a text is empty or holds only whitespace
Blank(text) == \A i \in DOMAIN text : text[i] = " "

\* the messages the statement gives the cells of a row, from the k-th column on
RECURSIVE RowMessagesFrom(_, _)
RowMessagesFrom(r, k) ==
    IF k > Len(fileobj.fieldnames) THEN <<>>
    ELSE LET key   == fileobj.fieldnames[k]
             value == fileobj.lines[r][k]
         IN  (IF key \in TranslatableHeaders /\ ~Blank(value)
              THEN << [lineno |-> r, message |-> Strip(value), comments |-> <<key>>] >>
              ELSE <<>>)
             \o RowMessagesFrom(r, k + 1)

\* the messages the statement gives the rows, from the r-th on
RECURSIVE RowsMessagesFrom(_)
RowsMessagesFrom(r) ==
    IF r > Len(fileobj.lines) THEN <<>>
    ELSE RowMessagesFrom(r, 1) \o RowsMessagesFrom(r + 1)

\* C24: what codelists_extract has yielded when it ends is one message per
\* header, at line 0 and in the order of the headers, and then, unless the
\* file is currency.csv, for each row in order and with its number counted
\* from 1, the stripped value of each Title, Description and Extension cell
\* with the column's name as comment; a cell that is empty or holds only
\* whitespace, and a cell of another column, gives no message.
C24_MessagesOfCodelist ==
    pc = "extracted" =>
        messages =
            [k \in DOMAIN fileobj.fieldnames |->
                [lineno |-> 0, message |-> Strip(fileobj.fieldnames[k]), comments |-> <<>>]]
            \o (IF Basename(fileobj.name) = "currency.csv" THEN <<>> ELSE RowsMessagesFrom(1))

====
